---------------------------- MODULE Spec2Model ----------------------------
(***************************************************************************)
(* A model of the MCP REST adapter (src/mcp_adapter): the retrying backend *)
(* HTTP client, service discovery (health probing), the OpenAPI loader,    *)
(* the tool generator, the request translator, the tool executor and the   *)
(* server's component bring-up.                                            *)
(*                                                                         *)
(* Text that the code takes apart or puts together character by character  *)
(* (service names, operation ids, paths, methods, tool names, argument     *)
(* names) is a sequence of one-character strings.  Enumerations the code   *)
(* only compares (schema types, parameter locations) are TLA+ strings.     *)
(***************************************************************************)
EXTENDS Integers, Sequences, FiniteSets, TLC

(***************************************************************************)
(* Bounds of the model.                                                    *)
(***************************************************************************)
\* the largest retry budget a ServiceConfig is given
MaxRetries == 3
\* the number of probes of one backend that ProbeSpec follows
MaxProbes == 4
\* the largest consecutive_failures a backend reaches in Spec
MaxFailures == 1
\* the number of refresh cycles that LoadSpec follows
MaxLoads == 3

(***************************************************************************)
(* Text helpers.                                                           *)
(***************************************************************************)
UpperChars ==
    <<"A","B","C","D","E","F","G","H","I","J","K","L","M",
      "N","O","P","Q","R","S","T","U","V","W","X","Y","Z">>

LowerChars ==
    <<"a","b","c","d","e","f","g","h","i","j","k","l","m",
      "n","o","p","q","r","s","t","u","v","w","x","y","z">>

DigitChars == <<"0","1","2","3","4","5","6","7","8","9">>

Range(s) == {s[i] : i \in DOMAIN s}

\* the character class [a-zA-Z0-9_] of the regular expression in _generate_tool_name
IdentChars == Range(UpperChars) \cup Range(LowerChars) \cup Range(DigitChars) \cup {"_"}

\* str.lower() on one character
LowerChar(c) ==
    IF \E i \in DOMAIN UpperChars : UpperChars[i] = c
    THEN LowerChars[CHOOSE i \in DOMAIN UpperChars : UpperChars[i] = c]
    ELSE c

\* str.upper() on one character
UpperChar(c) ==
    IF \E i \in DOMAIN LowerChars : LowerChars[i] = c
    THEN UpperChars[CHOOSE i \in DOMAIN LowerChars : LowerChars[i] = c]
    ELSE c

Lower(s) == [i \in DOMAIN s |-> LowerChar(s[i])]

Upper(s) == [i \in DOMAIN s |-> UpperChar(s[i])]

\* str.replace(a, b) for single characters a and b
ReplaceChar(s, a, b) == [i \in DOMAIN s |-> IF s[i] = a THEN b ELSE s[i]]

\* str.split(sep) for a single character sep: the parts, empty ones included
Split(s, sep) ==
    LET parts[i \in 0..Len(s)] ==
            IF i = 0 THEN << <<>> >>
            ELSE IF s[i] = sep THEN Append(parts[i-1], <<>>)
            ELSE [parts[i-1] EXCEPT ![Len(parts[i-1])] = Append(@, s[i])]
    IN  parts[Len(s)]

\* sep.join(parts)
RECURSIVE Join(_, _)
Join(parts, sep) ==
    IF parts = <<>> THEN <<>>
    ELSE IF Len(parts) = 1 THEN parts[1]
    ELSE parts[1] \o sep \o Join(Tail(parts), sep)

\* re.sub(r'[^a-zA-Z0-9_]', '_', s)
Sanitize(s) == [i \in DOMAIN s |-> IF s[i] \in IdentChars THEN s[i] ELSE "_"]

\* the index of the first c in s at or after position i, 0 when there is none
RECURSIVE IndexFrom(_, _, _)
IndexFrom(s, c, i) ==
    IF i > Len(s) THEN 0
    ELSE IF s[i] = c THEN i
    ELSE IndexFrom(s, c, i + 1)

\* re.findall(r'\{([^}]+)\}', s) scanning from position i
RECURSIVE FindParamsFrom(_, _)
FindParamsFrom(s, i) ==
    IF i > Len(s) THEN <<>>
    ELSE IF s[i] # "{" THEN FindParamsFrom(s, i + 1)
    ELSE LET j == IndexFrom(s, "}", i + 1)
         IN  IF j = 0 THEN <<>>
             ELSE IF j = i + 1 THEN FindParamsFrom(s, i + 1)
             ELSE <<SubSeq(s, i + 1, j - 1)>> \o FindParamsFrom(s, j + 1)

FindParams(s) == FindParamsFrom(s, 1)

(***************************************************************************)
(* Data.  An absent dictionary key is the one-element sequence AbsentStr,  *)
(* which no text equals (every element of a text is one character).        *)
(***************************************************************************)
AbsentStr == <<"<absent>">>

GET == <<"G","E","T">>

POST == <<"P","O","S","T">>

PUT == <<"P","U","T">>

DELETE == <<"D","E","L","E","T","E">>

PATCH == <<"P","A","T","C","H">>

\* the method keys _parse_openapi_spec keeps
SupportedMethods == {GET, POST, PUT, DELETE, PATCH}

NoBody == [present |-> FALSE]

\* f with key k set to v: d[k] = v on a dict
Put(f, k, v) == [x \in DOMAIN f \cup {k} |-> IF x = k THEN v ELSE f[x]]

\* dict.update: every key of g set in f
Update(f, g) == [x \in DOMAIN f \cup DOMAIN g |-> IF x \in DOMAIN g THEN g[x] ELSE f[x]]

EmptyMap == [x \in {} |-> 0]

(***************************************************************************)
(* OpenAPILoader: parsing a raw document into an OpenAPISpec.              *)
(* A raw document is [has_paths, ops]: ops lists, in document order, the   *)
(* (path, method key, operation) entries of its "paths" object.            *)
(***************************************************************************)
\* OpenAPILoader._parse_operation: method is already upper-cased
ParseOperation(path, method, operation) ==
    [path         |-> path,
     method       |-> method,
     operation_id |-> IF operation.operationId = AbsentStr
                      THEN Lower(method) \o <<"_">> \o ReplaceChar(path, "/", "_")
                      ELSE operation.operationId,
     summary      |-> IF operation.summary = AbsentStr THEN <<>> ELSE operation.summary,
     description  |-> IF operation.description = AbsentStr THEN <<>> ELSE operation.description,
     parameters   |-> operation.parameters,
     request_body |-> operation.requestBody]

\* the endpoints of the first n entries of a raw document
RECURSIVE ParseEntries(_, _)
ParseEntries(ops, n) ==
    IF n = 0 THEN <<>>
    ELSE LET e == ops[n]
             rest == ParseEntries(ops, n - 1)
         IN  IF Upper(e.method) \in SupportedMethods
             THEN Append(rest, ParseOperation(e.path, Upper(e.method), e.operation))
             ELSE rest

\* every method key of the document gives an endpoint
ParseOpenapiSpec_AllKeys(service_name, raw_spec) ==
    [service_name |-> service_name,
     endpoints    |-> IF raw_spec.has_paths
                      THEN [i \in DOMAIN raw_spec.ops |->
                               ParseOperation(raw_spec.ops[i].path, Upper(raw_spec.ops[i].method),
                                              raw_spec.ops[i].operation)]
                      ELSE <<>>]

\* OpenAPILoader._parse_openapi_spec
ParseOpenapiSpec(service_name, raw_spec) ==
    [service_name |-> service_name,
     endpoints    |-> IF raw_spec.has_paths
                      THEN ParseEntries(raw_spec.ops, Len(raw_spec.ops))
                      ELSE <<>>]

(***************************************************************************)
(* ToolGenerator.                                                          *)
(***************************************************************************)
RootSuffix == <<"_","r","o","o","t">>

\* path.split('/') without the empty parts and the {parameter} parts
StaticParts(path) == SelectSeq(Split(path, "/"), LAMBDA p : p # <<>> /\ p[1] # "{")

\* ToolGenerator._generate_tool_name
GenerateToolName(service_name, endpoint) ==
    LET base_name ==
            IF endpoint.operation_id # <<>>
            THEN endpoint.operation_id
            ELSE IF StaticParts(endpoint.path) # <<>>
                 THEN Lower(endpoint.method) \o <<"_">>
                      \o StaticParts(endpoint.path)[Len(StaticParts(endpoint.path))]
                 ELSE Lower(endpoint.method) \o RootSuffix
    IN  Sanitize(service_name \o <<"_">> \o base_name)

PathParametersLabel ==
    <<"P","a","t","h"," ","p","a","r","a","m","e","t","e","r","s",":"," ">>

ParamsIn(parameters, where) == SelectSeq(parameters, LAMBDA p : p.in = where)

\* ToolGenerator._generate_description
GenerateDescription(endpoint) ==
    LET p1 == IF endpoint.summary # <<>> THEN <<endpoint.summary>> ELSE <<>>
        p2 == IF endpoint.description # <<>> /\ endpoint.description # endpoint.summary
              THEN Append(p1, endpoint.description) ELSE p1
        p3 == IF p2 = <<>> THEN <<endpoint.method \o <<" ">> \o endpoint.path>> ELSE p2
        path_params == ParamsIn(endpoint.parameters, "path")
        names == [i \in DOMAIN path_params |-> path_params[i].name]
        p4 == IF path_params # <<>>
              THEN Append(p3, PathParametersLabel \o Join(names, <<",", " ">>))
              ELSE p3
    IN  Join(p4, <<".", " ">>)

\* the schema after the path (or query) parameters ps[1..n] were added
RECURSIVE AddParams(_, _, _)
AddParams(schema, ps, n) ==
    IF n = 0 THEN schema
    ELSE LET s == AddParams(schema, ps, n - 1)
             p == ps[n]
         IN  [properties |-> Put(s.properties, p.name, [type |-> p.type]),
              required   |-> IF p.required THEN Append(s.required, p.name) ELSE s.required]

\* the schema after the body properties ps[1..n] were spliced in
RECURSIVE AddBodyProps(_, _, _)
AddBodyProps(schema, ps, n) ==
    IF n = 0 THEN schema
    ELSE LET s == AddBodyProps(schema, ps, n - 1)
         IN  [s EXCEPT !.properties = Put(@, ps[n].name, [type |-> ps[n].type])]

\* the required list after the body's required names rs[1..n] were unioned in
RECURSIVE AddRequired(_, _, _)
AddRequired(required, rs, n) ==
    IF n = 0 THEN required
    ELSE LET r == AddRequired(required, rs, n - 1)
         IN  IF rs[n] \in Range(r) THEN r ELSE Append(r, rs[n])

BodyName == <<"b","o","d","y">>

\* ToolGenerator._generate_input_schema
GenerateInputSchema(endpoint) ==
    LET s0 == [properties |-> EmptyMap, required |-> <<>>]
        pp == ParamsIn(endpoint.parameters, "path")
        qp == ParamsIn(endpoint.parameters, "query")
        s1 == AddParams(s0, pp, Len(pp))
        s2 == AddParams(s1, qp, Len(qp))
        rb == endpoint.request_body
    IN  IF ~rb.present THEN s2
        ELSE IF rb.schema.type = "object"
        THEN LET s3 == AddBodyProps(s2, rb.schema.properties, Len(rb.schema.properties))
             IN  [s3 EXCEPT !.required =
                     AddRequired(@, rb.schema.required, Len(rb.schema.required))]
        ELSE [properties |-> Put(s2.properties, BodyName, [type |-> rb.schema.type]),
              required   |-> Append(s2.required, BodyName)]

\* ToolGenerator.generate_tool_from_endpoint
GenerateToolFromEndpoint(service_name, endpoint) ==
    [name          |-> GenerateToolName(service_name, endpoint),
     description   |-> GenerateDescription(endpoint),
     input_schema  |-> GenerateInputSchema(endpoint),
     service_name  |-> service_name,
     endpoint_path |-> endpoint.path,
     http_method   |-> endpoint.method,
     parameters    |-> endpoint.parameters,
     request_body  |-> endpoint.request_body]

\* the tools dict after the endpoints es[1..n] were visited
RECURSIVE ToolsOfEndpoints(_, _, _)
ToolsOfEndpoints(service_name, es, n) ==
    IF n = 0 THEN EmptyMap
    ELSE LET tool == GenerateToolFromEndpoint(service_name, es[n])
         IN  Put(ToolsOfEndpoints(service_name, es, n - 1), tool.name, tool)

\* ToolGenerator.generate_tools_for_service
GenerateToolsForService(service_name, spec) ==
    ToolsOfEndpoints(service_name, spec.endpoints, Len(spec.endpoints))

\* the tools dict after the services order[1..n] were visited, starting from `start`
RECURSIVE ToolsOfServices(_, _, _, _)
ToolsOfServices(start, order, all_specs, n) ==
    IF n = 0 THEN start
    ELSE LET sofar == ToolsOfServices(start, order, all_specs, n - 1)
             name == order[n]
         IN  IF name \in DOMAIN all_specs
             THEN Update(sofar, GenerateToolsForService(name, all_specs[name]))
             ELSE sofar

\* the orders in which a Python set may be iterated
Orders(S) == {o \in [1..Cardinality(S) -> S] : Range(o) = S}


(***************************************************************************)
(* The configured backends and the documents they serve.                   *)
(***************************************************************************)
SvcA == <<"a">>

SvcB == <<"a","_","b">>

\* the keys of http_client.service_configs
Services == {SvcA, SvcB}

\* a name no ServiceConfig has
SvcUnknown == <<"u">>

ArgX == <<"x">>

ArgQ == <<"q">>

ArgN == <<"n">>

Param(name, where, required, type) ==
    [name |-> name, in |-> where, required |-> required, type |-> type]

Operation(operationId, parameters, requestBody) ==
    [operationId |-> operationId, summary |-> AbsentStr, description |-> AbsentStr,
     parameters |-> parameters, requestBody |-> requestBody]

ObjectBody(properties, required) ==
    [present |-> TRUE,
     schema  |-> [type |-> "object", properties |-> properties, required |-> required]]

\* "get /i/{x}", operationId "b_c": path parameter x (not marked required), query parameter q
OpGetItem ==
    [path |-> <<"/","i","/","{","x","}">>, method |-> <<"g","e","t">>,
     operation |-> Operation(<<"b","_","c">>,
                             <<Param(ArgX, "path", FALSE, "string"),
                               Param(ArgQ, "query", FALSE, "integer")>>,
                             NoBody)]

\* "post /i" without operationId: an object body with the required property n
OpPostItem ==
    [path |-> <<"/","i">>, method |-> <<"p","o","s","t">>,
     operation |-> Operation(AbsentStr, <<>>,
                             ObjectBody(<<[name |-> ArgN, type |-> "string"]>>, <<ArgN>>))]

\* "get /c", operationId "c"
OpGetC ==
    [path |-> <<"/","c">>, method |-> <<"g","e","t">>,
     operation |-> Operation(<<"c">>, <<>>, NoBody)]

\* "delete /c", operationId "b-c"
OpDeleteC ==
    [path |-> <<"/","c">>, method |-> <<"d","e","l","e","t","e">>,
     operation |-> Operation(<<"b","-","c">>, <<>>, NoBody)]

\* "head /c": a method key the loader skips
OpHeadC ==
    [path |-> <<"/","c">>, method |-> <<"h","e","a","d">>,
     operation |-> Operation(AbsentStr, <<>>, NoBody)]

\* "put /i/{x}", operationId "p": the required query parameter q listed before the
\* required path parameter x, and an object body with the required property n
OpPutItem ==
    [path |-> <<"/","i","/","{","x","}">>, method |-> <<"p","u","t">>,
     operation |-> Operation(<<"p">>,
                             <<Param(ArgQ, "query", TRUE, "integer"),
                               Param(ArgX, "path", TRUE, "string")>>,
                             ObjectBody(<<[name |-> ArgN, type |-> "string"]>>, <<ArgN>>))]

\* a document with a "paths" object
RawDoc(ops) == [has_paths |-> TRUE, ops |-> ops]

(***************************************************************************)
(* Call arguments: an insertion-ordered dict is a sequence of [key, value] *)
(* pairs with distinct keys.  A value carries its Python type name t and   *)
(* its str() text v.                                                       *)
(***************************************************************************)
\* the largest number of entries of an argument map that is tried
MaxArgs == 2

VStr == [t |-> "str", v |-> <<"7">>]

VInt == [t |-> "int", v |-> <<"4">>]

VBool == [t |-> "bool", v |-> <<"T","r","u","e">>]

ArgKeys == {ArgX, ArgQ, ArgN}

ArgValues == {VStr, VInt, VBool}

Keys(args) == {args[i].key : i \in DOMAIN args}

\* args[k] for a key that is present
Get(args, k) == args[CHOOSE i \in DOMAIN args : args[i].key = k].value

ArgMaps ==
    UNION {{a \in [1..n -> [key : ArgKeys, value : ArgValues]] :
               \A i, j \in 1..n : i # j => a[i].key # a[j].key} : n \in 0..MaxArgs}

(***************************************************************************)
(* RequestTranslator.                                                      *)
(***************************************************************************)
\* whether pat occurs in s at position i
MatchAt(s, pat, i) ==
    /\ i + Len(pat) - 1 <= Len(s)
    /\ \A k \in 1..Len(pat) : s[i + k - 1] = pat[k]

\* str.replace(pat, rep) from position i on, for a non-empty pat
RECURSIVE ReplaceFrom(_, _, _, _)
ReplaceFrom(s, pat, rep, i) ==
    IF i > Len(s) THEN <<>>
    ELSE IF MatchAt(s, pat, i) THEN rep \o ReplaceFrom(s, pat, rep, i + Len(pat))
    ELSE <<s[i]>> \o ReplaceFrom(s, pat, rep, i + 1)

ReplaceAll(s, pat, rep) == ReplaceFrom(s, pat, rep, 1)

\* the loop of _build_path over path_params[1..n]
RECURSIVE BuildPathLoop(_, _, _, _)
BuildPathLoop(endpoint_path, path_params, arguments, n) ==
    IF n = 0 THEN [ok |-> TRUE, path |-> endpoint_path, missing |-> <<>>]
    ELSE LET before == BuildPathLoop(endpoint_path, path_params, arguments, n - 1)
             param == path_params[n]
         IN  IF ~before.ok THEN before
             ELSE IF param \in Keys(arguments)
             THEN [before EXCEPT !.path =
                      ReplaceAll(@, <<"{">> \o param \o <<"}">>, Get(arguments, param).v)]
             ELSE [ok |-> FALSE, path |-> before.path, missing |-> param]

\* a placeholder without argument is left in the path
BuildPath_KeepsPlaceholder(endpoint_path, arguments) ==
    [ok |-> TRUE, path |-> endpoint_path, missing |-> <<>>]

\* RequestTranslator._build_path: ok = FALSE is the ValueError naming `missing`
BuildPath(endpoint_path, arguments) ==
    BuildPathLoop(endpoint_path, FindParams(endpoint_path), arguments,
                  Len(FindParams(endpoint_path)))

\* RequestTranslator._extract_query_params
ExtractQueryParams(parameters, arguments) ==
    LET qp == SelectSeq(ParamsIn(parameters, "query"), LAMBDA p : p.name \in Keys(arguments))
    IN  [i \in DOMAIN qp |-> [key |-> qp[i].name, value |-> Get(arguments, qp[i].name)]]

\* the other arguments are merged into an explicit "body"
ExtractRequestBody_MergeBody(tool, arguments) ==
    LET excluded == Range(FindParams(tool.endpoint_path))
                    \cup {p.name : p \in Range(ParamsIn(tool.parameters, "query"))}
        body == SelectSeq(arguments, LAMBDA a : a.key \notin excluded)
    IN  IF ~tool.request_body.present THEN [kind |-> "none", value |-> <<>>]
        ELSE IF body # <<>> THEN [kind |-> "dict", value |-> body]
        ELSE [kind |-> "none", value |-> <<>>]

\* RequestTranslator._extract_request_body: kind "none" is Python's None
ExtractRequestBody(tool, arguments) ==
    LET excluded == Range(FindParams(tool.endpoint_path))
                    \cup {p.name : p \in Range(ParamsIn(tool.parameters, "query"))}
        body == SelectSeq(arguments, LAMBDA a : a.key \notin excluded)
    IN  IF ~tool.request_body.present THEN [kind |-> "none", value |-> <<>>]
        ELSE IF BodyName \in Keys(arguments)
        THEN [kind |-> "value", value |-> <<[key |-> BodyName, value |-> Get(arguments, BodyName)]>>]
        ELSE IF body # <<>> THEN [kind |-> "dict", value |-> body]
        ELSE [kind |-> "none", value |-> <<>>]

\* RequestTranslator.translate_mcp_to_http: ok = FALSE is the ValueError it raises
TranslateMcpToHttp(tool, arguments) ==
    LET built == BuildPath(tool.endpoint_path, arguments)
        query_params == ExtractQueryParams(tool.parameters, arguments)
        request_body == ExtractRequestBody(tool, arguments)
    IN  [ok      |-> built.ok,
         missing |-> built.missing,
         path    |-> built.path,
         method  |-> tool.http_method,
         kwargs  |-> [has_params |-> query_params # <<>>,
                      params     |-> query_params,
                      has_json   |-> request_body.kind # "none",
                      json       |-> request_body]]

\* RequestTranslator.create_error_response
\* every error is given the code 500
CreateErrorResponse_Code500(error_message, error_code) ==
    [isError |-> TRUE,
     text    |-> [prefix |-> "Error: ", body |-> error_message],
     meta    |-> [present |-> TRUE, error_code |-> 500,
                  error_message |-> error_message]]

CreateErrorResponse(error_message, error_code) ==
    [isError |-> TRUE,
     text    |-> [prefix |-> "Error: ", body |-> error_message],
     meta    |-> [present |-> TRUE, error_code |-> error_code,
                  error_message |-> error_message]]

\* the text of a response whose .text cannot be read: reading it raises
UnreadableText == <<"<unreadable>">>

\* a body that is not JSON is reported as an error
TranslateHttpToMcp_JsonOnly(response, tool) ==
    IF ~response.json
    THEN [isError |-> TRUE,
          text    |-> [prefix |-> "Error translating response: ", body |-> <<>>],
          meta    |-> [present |-> FALSE]]
    ELSE [isError |-> FALSE,
          text    |-> [prefix |-> "json.dumps", body |-> response.text],
          meta    |-> [present |-> TRUE, status_code |-> response.status,
                       tool_name |-> tool.name, service |-> tool.service_name]]

\* RequestTranslator.translate_http_to_mcp for an httpx response: the text is the
\* json.dumps of the decoded body, or response.text when decoding raises; an
\* exception raised on the way (here: by reading response.text) gives the error result
TranslateHttpToMcp(response, tool) ==
    IF ~response.json /\ response.text = UnreadableText
    THEN [isError |-> TRUE,
          text    |-> [prefix |-> "Error translating response: ", body |-> <<>>],
          meta    |-> [present |-> FALSE]]
    ELSE [isError |-> FALSE,
          text    |-> [prefix |-> IF response.json THEN "json.dumps" ELSE "text",
                       body   |-> response.text],
          meta    |-> [present |-> TRUE, status_code |-> response.status,
                       tool_name |-> tool.name, service |-> tool.service_name]]

\* an f-string: its template and the texts and type names put into it
Msg(fmt, texts, types) == [fmt |-> fmt, texts |-> texts, types |-> types]

(***************************************************************************)
(* ToolExecutor: argument validation.                                      *)
(***************************************************************************)
\* ToolExecutor._validate_type
ValidateType(value, expected_type) ==
    CASE expected_type = "string"  -> value.t = "str"
      [] expected_type = "integer" -> value.t \in {"int", "bool"}
      [] expected_type = "number"  -> value.t \in {"int", "bool", "float"}
      [] expected_type = "boolean" -> value.t = "bool"
      [] expected_type = "array"   -> value.t = "list"
      [] expected_type = "object"  -> value.t = "dict"
      [] OTHER -> TRUE

NoMsg == Msg("", <<>>, <<>>)

\* the last missing field is reported, not the first
ValidateArguments_LastMissing(tool, arguments) ==
    LET required_fields == tool.input_schema.required
        missing == SelectSeq(required_fields, LAMBDA f : f \notin Keys(arguments))
    IN  IF missing # <<>>
        THEN Msg("Missing required parameter: {}", <<missing[Len(missing)]>>, <<>>)
        ELSE NoMsg

\* ToolExecutor._validate_arguments: NoMsg is Python's None
ValidateArguments(tool, arguments) ==
    LET required_fields == tool.input_schema.required
        properties == tool.input_schema.properties
        missing == SelectSeq(required_fields, LAMBDA f : f \notin Keys(arguments))
        bad == SelectSeq(arguments,
                         LAMBDA a : /\ a.key \in DOMAIN properties
                                    /\ ~ValidateType(a.value, properties[a.key].type))
    IN  IF missing # <<>>
        THEN Msg("Missing required parameter: {}", <<missing[1]>>, <<>>)
        ELSE IF bad # <<>>
        THEN Msg("Invalid type for parameter '{}': expected {}, got {}",
                 <<bad[1].key>>, <<properties[bad[1].key].type, bad[1].value.t>>)
        ELSE NoMsg


(***************************************************************************)
(* State.                                                                  *)
(***************************************************************************)
VARIABLES
    service_configs,    \* BackendHTTPClient.service_configs: name -> [retries]
    clients,            \* the names BackendHTTPClient.clients has a client for
    tools,              \* ToolGenerator.tools: tool name -> MCPTool
    rq,                 \* the call of BackendHTTPClient._request in progress
    ex,                 \* the call of ToolExecutor.execute_tool in progress
    tr,                 \* the call of RequestTranslator.translate_mcp_to_http made last
    service_statuses,   \* ServiceDiscovery.service_statuses: name -> ServiceStatus
    healthy_services,   \* ServiceDiscovery.healthy_services
    specs,              \* OpenAPILoader.specs: name -> OpenAPISpec
    is_initialized,     \* MCPServer.is_initialized
    pc,                 \* where each handler and each background task stands
    pend,               \* the probes or loads each of them still awaits (asyncio.gather)
    seen,               \* the tool names of the last tools/list response, and (history)
                        \* the generation that was the last one when it was built
    probes,             \* history: the outcomes of the probes of each backend, in order
    loads,              \* history: what the loads of each backend's document gave, in order
    errs,               \* history: how many iterations of each background task raised
    tasks,              \* ServiceDiscovery._monitoring_task and OpenAPILoader._refresh_task
    shutdown,           \* where the call of MCPServer.shutdown stands
    gen                 \* history: what the last generate_all_tools read

\* the state of the server's components
serverVars ==
    <<service_statuses, healthy_services, specs, is_initialized, pc, pend, seen, probes,
      loads, errs, tasks, shutdown, gen>>

vars == <<service_configs, clients, tools, rq, ex, tr, serverVars>>

(***************************************************************************)
(* BackendHTTPClient._request.  One attempt is one await of                *)
(* client.request; its outcome is a response or a transport failure        *)
(* (httpx.RequestError).                                                   *)
(***************************************************************************)
Response(status, json) ==
    [kind |-> "response", status |-> status, json |-> json, text |-> <<"t">>]

TransportFailure == [kind |-> "transport", status |-> 0, json |-> FALSE, text |-> <<>>]

\* what one attempt against a backend may give
Outcomes ==
    {Response(200, TRUE), Response(200, FALSE), Response(404, FALSE),
     Response(500, FALSE), TransportFailure}

\* str(n) for a natural number
RECURSIVE IntToText(_)
IntToText(n) ==
    IF n < 10 THEN <<DigitChars[n + 1]>>
    ELSE IntToText(n \div 10) \o <<DigitChars[(n % 10) + 1]>>

RECURSIVE Pow2(_)
Pow2(n) == IF n = 0 THEN 1 ELSE 2 * Pow2(n - 1)

NoResult == [kind |-> "none", response |-> TransportFailure]

RqIdle ==
    [pc |-> "idle", caller |-> "none", service |-> <<>>, method |-> <<>>, path |-> <<>>,
     attempt |-> 0, calls |-> 0, outcomes |-> <<>>, sleeps |-> <<>>, result |-> NoResult]

\* the first attempt is made whether or not the service has a client
RequestEnter_NoClientCheck(caller, service_name, method, path) ==
    [RqIdle EXCEPT !.caller = caller, !.service = service_name, !.method = method,
                   !.path = path, !.pc = "awaiting", !.calls = 1]

\* entering _request: lines 61-71, up to the first await of client.request
RequestEnter(caller, service_name, method, path) ==
    LET r == [RqIdle EXCEPT !.caller = caller, !.service = service_name,
                            !.method = method, !.path = path]
    IN  IF service_name \notin clients
        THEN [r EXCEPT !.pc = "raised",
                       !.result = [kind |-> "ValueError", response |-> TransportFailure]]
        ELSE IF service_configs[service_name].retries + 1 <= 0
        THEN [r EXCEPT !.pc = "raised",
                       !.result = [kind |-> "Exception", response |-> TransportFailure]]
        ELSE [r EXCEPT !.pc = "awaiting", !.calls = 1]

\* whether the loop of _request re-raises after a failed attempt: lines 83 and 89
\* no attempt is retried
Reraises_FirstFailure(r, outcome) == TRUE

Reraises_Retry4xx(r, outcome) ==
    r.attempt = service_configs[r.service].retries

Reraises_OffByOne(r, outcome) ==
    \/ (outcome.kind = "response" /\ outcome.status < 500)
    \/ r.attempt + 1 >= service_configs[r.service].retries

Reraises(r, outcome) ==
    \/ (outcome.kind = "response" /\ outcome.status < 500)
    \/ r.attempt = service_configs[r.service].retries

\* the backoff delay after failed attempt number `attempt`: lines 85 and 91
Backoff_Constant(attempt) == 1

Backoff(attempt) == Pow2(attempt)

\* the rest of one loop iteration once the awaited attempt has its outcome
RequestAfter(r, outcome) ==
    LET r1 == [r EXCEPT !.outcomes = Append(@, outcome)]
    IN  IF outcome.kind = "response" /\ outcome.status < 400
        THEN [r1 EXCEPT !.pc = "returned",
                        !.result = [kind |-> "response", response |-> outcome]]
        ELSE IF Reraises(r, outcome)
        THEN [r1 EXCEPT !.pc = "raised",
                        !.result = [kind |-> IF outcome.kind = "response"
                                             THEN "HTTPStatusError" ELSE "RequestError",
                                    response |-> outcome]]
        ELSE [r1 EXCEPT !.pc = "sleeping", !.sleeps = Append(@, Backoff(r.attempt))]

\* a caller other than the executor calls get/post/put/delete/patch
RequestDirect(service_name, method) ==
    /\ rq.pc = "idle"
    /\ ex.pc = "idle"
    /\ rq' = RequestEnter("direct", service_name, method, <<"/","c">>)
    /\ UNCHANGED <<service_configs, clients, tools, ex, tr, serverVars>>

\* that caller has the response or the exception of its call
RequestReturn ==
    /\ rq.caller = "direct"
    /\ rq.pc \in {"returned", "raised"}
    /\ rq' = RqIdle
    /\ UNCHANGED <<service_configs, clients, tools, ex, tr, serverVars>>

\* the awaited client.request ends
RequestRespond(outcome) ==
    /\ rq.pc = "awaiting"
    /\ rq' = RequestAfter(rq, outcome)
    /\ UNCHANGED <<service_configs, clients, tools, ex, tr, serverVars>>

\* asyncio.sleep(2 ** attempt) ends and the next iteration calls client.request
RequestWake ==
    /\ rq.pc = "sleeping"
    /\ rq' = [rq EXCEPT !.pc = "awaiting", !.attempt = @ + 1, !.calls = @ + 1]
    /\ UNCHANGED <<service_configs, clients, tools, ex, tr, serverVars>>

(***************************************************************************)
(* A call of RequestTranslator.translate_mcp_to_http on its own: tr holds  *)
(* the tool, the arguments and what the call gave, until the caller has it.*)
(***************************************************************************)
TrIdle == [pc |-> "idle", tool |-> <<>>, arguments |-> <<>>, result |-> <<>>]

\* translate_mcp_to_http(tool, arguments): synchronous, it reads nothing but its inputs
Translate(tool, arguments) ==
    /\ tr.pc = "idle"
    /\ tr' = [pc |-> "done", tool |-> tool, arguments |-> arguments,
              result |-> TranslateMcpToHttp(tool, arguments)]
    /\ UNCHANGED <<service_configs, clients, tools, rq, ex, serverVars>>

\* the caller has the request, or the ValueError
TranslateReturn ==
    /\ tr.pc = "done"
    /\ tr' = TrIdle
    /\ UNCHANGED <<service_configs, clients, tools, rq, ex, serverVars>>

(***************************************************************************)
(* BackendHTTPClient.health_check: a GET of /health through _request; rq   *)
(* holds the call, and at the end its pc and result.kind say how           *)
(* health_check itself ended ("answered" with "True" or "False").          *)
(***************************************************************************)
HealthPath == <<"/","h","e","a","l","t","h">>

\* the exception of _request leaves health_check
HealthCheckAnswer_Propagates(r) ==
    IF r.pc = "returned"
    THEN [pc |-> "answered",
          kind |-> IF r.result.response.status = 200 THEN "True" ELSE "False"]
    ELSE [pc |-> "failed", kind |-> r.result.kind]

\* lines 97-102: how health_check ends once _request has returned or raised
HealthCheckAnswer(r) ==
    IF r.pc = "returned"
    THEN [pc |-> "answered",
          kind |-> IF r.result.response.status = 200 THEN "True" ELSE "False"]
    ELSE [pc |-> "answered", kind |-> "False"]

HealthCheckEnd(r) ==
    [r EXCEPT !.pc = HealthCheckAnswer(r).pc, !.result.kind = HealthCheckAnswer(r).kind]

\* health_check is called: it runs to the await of the first attempt, or to its end
\* when _request raises at once
HealthCheck(service_name) ==
    LET r == RequestEnter("health", service_name, GET, HealthPath)
    IN  /\ rq.pc = "idle"
        /\ ex.pc = "idle"
        /\ rq' = IF r.pc = "raised" THEN HealthCheckEnd(r) ELSE r
        /\ UNCHANGED <<service_configs, clients, tools, ex, tr, serverVars>>

\* _request has returned or raised: health_check ends
HealthCheckFinish ==
    /\ rq.caller = "health"
    /\ rq.pc \in {"returned", "raised"}
    /\ rq' = HealthCheckEnd(rq)
    /\ UNCHANGED <<service_configs, clients, tools, ex, tr, serverVars>>

\* the caller of health_check has its answer
HealthCheckReturn ==
    /\ rq.caller = "health"
    /\ rq.pc \in {"answered", "failed"}
    /\ rq' = RqIdle
    /\ UNCHANGED <<service_configs, clients, tools, ex, tr, serverVars>>

(***************************************************************************)
(* ToolExecutor.execute_tool.                                              *)
(***************************************************************************)
\* a tool name that is a JSON list: dict.get raises TypeError (unhashable)
ListName == <<"<list>">>

\* a name no tool has
NoSuchTool == <<"z">>

ExIdle ==
    [pc |-> "idle", tool_name |-> <<>>, arguments |-> <<>>, step |-> "none",
     raised |-> FALSE, result |-> CreateErrorResponse(NoMsg, 0)]

\* str(e) of an exception: the message it was raised with where the model follows
\* it, its type otherwise
ExcMessage(exc) ==
    IF "message" \in DOMAIN exc THEN exc.message ELSE Msg("{}", <<>>, <<exc.kind>>)

\* f"Internal error: {e}"
InternalError(exc) ==
    Msg("Internal error: " \o ExcMessage(exc).fmt, ExcMessage(exc).texts,
        ExcMessage(exc).types)

\* the except clauses of execute_tool, lines 66-83: [raised, result]
ExecuteExcept_NoCatchAll(exc) ==
    IF exc.kind = "HTTPStatusError"
    THEN [raised |-> FALSE,
          result |-> CreateErrorResponse(Msg("HTTP error: {} - {}",
                                             <<IntToText(exc.response.status),
                                               exc.response.text>>, <<>>),
                                         exc.response.status)]
    ELSE IF exc.kind = "RequestError"
    THEN [raised |-> FALSE,
          result |-> CreateErrorResponse(Msg("Request error: {}", <<>>, <<>>), 503)]
    ELSE [raised |-> TRUE,
          result |-> CreateErrorResponse(NoMsg, 0)]

\* an upstream status error is reported as an internal error
ExecuteExcept_Always500(exc) ==
    IF exc.kind = "RequestError"
    THEN [raised |-> FALSE,
          result |-> CreateErrorResponse(Msg("Request error: {}", <<>>, <<>>), 503)]
    ELSE [raised |-> FALSE,
          result |-> CreateErrorResponse(InternalError(exc), 500)]

ExecuteExcept(exc) ==
    IF exc.kind = "HTTPStatusError"
    THEN [raised |-> FALSE,
          result |-> CreateErrorResponse(Msg("HTTP error: {} - {}",
                                             <<IntToText(exc.response.status),
                                               exc.response.text>>, <<>>),
                                         exc.response.status)]
    ELSE IF exc.kind = "RequestError"
    THEN [raised |-> FALSE,
          result |-> CreateErrorResponse(Msg("Request error: {}", <<>>, <<>>), 503)]
    ELSE [raised |-> FALSE,
          result |-> CreateErrorResponse(InternalError(exc), 500)]

Exc(kind) == [kind |-> kind, response |-> TransportFailure]

\* the ValueError of translate_mcp_to_http around the one of _build_path
\* (request_translator.py lines 46-48 and 117)
TranslationFailed(param) ==
    [kind |-> "ValueError", response |-> TransportFailure,
     message |-> Msg("Request translation failed: Missing required path parameter: {}",
                     <<param>>, <<>>)]

\* a tool is found only while its service is in the healthy set
HasTool_HealthyOnly(tool_name) ==
    /\ tool_name \in DOMAIN tools
    /\ tools[tool_name].service_name \in healthy_services

\* ToolGenerator.get_tool returns a tool: self.tools.get(tool_name) is not None
HasTool(tool_name) == tool_name \in DOMAIN tools

\* execute_tool up to its await, lines 27-57: what it does with the name and arguments
ExecuteBegin(tool_name, arguments) ==
    IF tool_name = ListName
    THEN [next |-> "raise", step |-> "lookup", exc |-> Exc("TypeError")]
    ELSE IF ~HasTool(tool_name)
    THEN [next |-> "return", step |-> "lookup",
          result |-> CreateErrorResponse(Msg("Tool not found: {}", <<tool_name>>, <<>>), 404)]
    ELSE IF ValidateArguments(tools[tool_name], arguments) # NoMsg
    THEN [next |-> "return", step |-> "validate",
          result |-> CreateErrorResponse(ValidateArguments(tools[tool_name], arguments), 400)]
    ELSE IF ~TranslateMcpToHttp(tools[tool_name], arguments).ok
    THEN [next |-> "raise", step |-> "translate",
          exc |-> TranslationFailed(TranslateMcpToHttp(tools[tool_name], arguments).missing)]
    ELSE IF Upper(tools[tool_name].http_method) \notin SupportedMethods
    THEN [next |-> "raise", step |-> "dispatch", exc |-> Exc("ValueError")]
    ELSE [next |-> "request", step |-> "dispatch",
          http |-> TranslateMcpToHttp(tools[tool_name], arguments)]

\* execute_tool is called: it runs to its result or to the await of the first attempt
ExecuteTool(tool_name, arguments) ==
    LET b == ExecuteBegin(tool_name, arguments)
        e == [ExIdle EXCEPT !.tool_name = tool_name, !.arguments = arguments, !.step = b.step]
        r == RequestEnter("execute", tools[tool_name].service_name, b.http.method, b.http.path)
    IN  /\ ex.pc = "idle"
        /\ rq.pc = "idle"
        /\ IF b.next = "return"
           THEN /\ ex' = [e EXCEPT !.pc = "done", !.result = b.result]
                /\ rq' = RqIdle
           ELSE IF b.next = "raise"
           THEN /\ ex' = [e EXCEPT !.pc = "done",
                                   !.raised = ExecuteExcept(b.exc).raised,
                                   !.result = ExecuteExcept(b.exc).result]
                /\ rq' = RqIdle
           ELSE IF r.pc = "raised"
           THEN /\ ex' = [e EXCEPT !.pc = "done",
                                   !.raised = ExecuteExcept(r.result).raised,
                                   !.result = ExecuteExcept(r.result).result]
                /\ rq' = r
           ELSE /\ ex' = [e EXCEPT !.pc = "dispatching"]
                /\ rq' = r
        /\ UNCHANGED <<service_configs, clients, tools, tr, serverVars>>

\* _request has returned or raised: execute_tool runs on to its result, lines 59-83
ExecuteFinish ==
    /\ ex.pc = "dispatching"
    /\ rq.caller = "execute"
    /\ rq.pc \in {"returned", "raised"}
    /\ IF rq.pc = "returned"
       THEN ex' = [ex EXCEPT !.pc = "done", !.step = "ok",
                             !.result = TranslateHttpToMcp(rq.result.response,
                                                           tools[ex.tool_name])]
       ELSE ex' = [ex EXCEPT !.pc = "done",
                             !.raised = ExecuteExcept(rq.result).raised,
                             !.result = ExecuteExcept(rq.result).result]
    /\ UNCHANGED <<service_configs, clients, tools, rq, tr, serverVars>>


\* the caller of execute_tool has its result
ExecuteReturn ==
    /\ ex.pc = "done"
    /\ ex' = ExIdle
    /\ rq' = RqIdle
    /\ UNCHANGED <<service_configs, clients, tools, tr, serverVars>>

(***************************************************************************)
(* ServiceDiscovery._check_service_health.  The outcome of the awaited     *)
(* http_client.health_check is "true", "false" or "raise" (an exception).  *)
(***************************************************************************)
ExceptionText == "Connection error"

\* the ServiceStatus a first probe that does not raise creates: lines 72-76
NewStatus(is_healthy) ==
    [is_healthy |-> is_healthy, consecutive_failures |-> 0, last_error |-> ""]

\* service_statuses after the probe of service_name: lines 68-108
StatusesAfterProbe(statuses, service_name, outcome) ==
    IF outcome = "raise"
    THEN IF service_name \in DOMAIN statuses
         THEN [statuses EXCEPT ![service_name] =
                  [is_healthy |-> FALSE,
                   consecutive_failures |-> @.consecutive_failures + 1,
                   last_error |-> ExceptionText]]
         ELSE statuses
    ELSE IF service_name \notin DOMAIN statuses
    THEN Put(statuses, service_name, NewStatus(outcome = "true"))
    ELSE IF outcome = "true"
    THEN [statuses EXCEPT ![service_name] =
             [is_healthy |-> TRUE, consecutive_failures |-> 0, last_error |-> ""]]
    ELSE [statuses EXCEPT ![service_name] =
             [@ EXCEPT !.is_healthy = FALSE,
                       !.consecutive_failures = @ + 1]]

\* a probe that fails takes the other backends out of the healthy set as well
HealthyAfterProbe_AbortSiblings(healthy, statuses, service_name, outcome) ==
    IF outcome = "true" THEN healthy \cup {service_name} ELSE {}

\* a probe that raises leaves the healthy set as it is
HealthyAfterProbe_KeepOnRaise(healthy, statuses, service_name, outcome) ==
    IF outcome = "true" THEN healthy \cup {service_name}
    ELSE IF outcome = "false" /\ service_name \in DOMAIN statuses
    THEN healthy \ {service_name}
    ELSE healthy

\* healthy_services after the probe of service_name: lines 78-79, 91, 95, 108
HealthyAfterProbe(healthy, statuses, service_name, outcome) ==
    IF outcome = "true" THEN healthy \cup {service_name}
    ELSE IF service_name \in DOMAIN statuses THEN healthy \ {service_name}
    ELSE healthy

\* one call of _check_service_health ends
CheckServiceHealth(service_name, outcome) ==
    /\ service_statuses' = StatusesAfterProbe(service_statuses, service_name, outcome)
    /\ healthy_services' =
          HealthyAfterProbe(healthy_services, service_statuses, service_name, outcome)

(***************************************************************************)
(* OpenAPILoader.load_spec.  The backend serves one of its documents, or   *)
(* the load fails (transport error, upstream error, unparsable body).      *)
(***************************************************************************)
LoadFailure == [has_paths |-> FALSE, ops |-> <<"<failure>">>]

\* the documents backend s may serve at /openapi.json
BackendDocs(s) ==
    IF s = SvcA
    THEN {RawDoc(<<OpGetItem, OpPostItem>>), RawDoc(<<OpGetItem, OpDeleteC>>)}
    ELSE {RawDoc(<<OpGetC, OpHeadC>>)}

\* a successful load leaves only the document it stored
SpecsAfterLoad_OnlyLoaded(all_specs, service_name, loaded) ==
    IF loaded = LoadFailure THEN all_specs
    ELSE Put(EmptyMap, service_name, ParseOpenapiSpec(service_name, loaded))

\* a failed load drops the stored document
SpecsAfterLoad_DropOnFailure(all_specs, service_name, loaded) ==
    IF loaded = LoadFailure
    THEN [x \in DOMAIN all_specs \ {service_name} |-> all_specs[x]]
    ELSE Put(all_specs, service_name, ParseOpenapiSpec(service_name, loaded))

\* OpenAPILoader.specs after load_spec(service_name): lines 74-93
SpecsAfterLoad(all_specs, service_name, loaded) ==
    IF loaded = LoadFailure THEN all_specs
    ELSE Put(all_specs, service_name, ParseOpenapiSpec(service_name, loaded))

(***************************************************************************)
(* ToolGenerator.generate_all_tools.  It is a plain function (no await):   *)
(* it clears and refills self.tools within one turn of the event loop.     *)
(* `order` is the order in which the set of healthy services is iterated.  *)
(***************************************************************************)
\* the dict is left as it is when the function is suspended before the last service
GenerateAllTools_Partial(old_tools, order, all_specs) ==
    IF order = <<>> THEN EmptyMap
    ELSE ToolsOfServices(EmptyMap, order, all_specs, Len(order) - 1)

\* the dict is not cleared first
GenerateAllTools_NoClear(old_tools, order, all_specs) ==
    ToolsOfServices(old_tools, order, all_specs, Len(order))

GenerateAllTools(old_tools, order, all_specs) ==
    ToolsOfServices(EmptyMap, order, all_specs, Len(order))

NoGen == [ran |-> FALSE, healthy |-> {}, specs |-> EmptyMap, order |-> <<>>]

\* generate_all_tools runs, iterating get_healthy_services() in `order`
Regenerate(order) ==
    /\ order \in Orders(healthy_services)
    /\ tools' = GenerateAllTools(tools, order, specs)
    /\ gen' = [ran |-> TRUE, healthy |-> healthy_services, specs |-> specs, order |-> order]

(***************************************************************************)
(* Handlers and background tasks.  Handlers are the startup hook and a     *)
(* request (initialize, tools/list or tools/call); each start_monitoring   *)
(* creates a monitor task and each start_loading a refresh task, named     *)
(* here after the handler whose bring-up created it.                       *)
(***************************************************************************)
Handlers == {"startup", "request1", "request2"}

MonitorOf(h) == "monitor of " \o h

RefreshOf(h) == "refresh of " \o h

MonitorTasks == {MonitorOf(h) : h \in Handlers}

RefreshTasks == {RefreshOf(h) : h \in Handlers}

Runners == Handlers \cup MonitorTasks \cup RefreshTasks

\* _monitoring_task / _refresh_task before start_monitoring / start_loading (None)
NoTask == "None"

\* the task fields of a server whose startup hook created the tasks that exist in p
TasksOf(p) ==
    [monitoring_task |-> IF p[MonitorOf("startup")] = "none" THEN NoTask
                         ELSE MonitorOf("startup"),
     refresh_task |-> IF p[RefreshOf("startup")] = "none" THEN NoTask
                      ELSE RefreshOf("startup")]

\* no iteration of a background task has raised
NoErrs == [t \in MonitorTasks \cup RefreshTasks |-> 0]

\* what a probe may give where the real http_client.health_check is awaited:
\* it catches every exception, so it never raises
HealthCheckResults == {"true", "false"}

\* the model follows consecutive_failures up to MaxFailures
WithinFailureBound(service_name, outcome) ==
    IF outcome = "true" \/ service_name \notin DOMAIN service_statuses THEN TRUE
    ELSE service_statuses[service_name].consecutive_failures < MaxFailures

\* a handler runs `if not self.is_initialized: await self.initialize_components()`:
\* server.py lines 86-87, 100-101, 111-112, 268 and 38-48, then
\* start_monitoring -> _check_all_services up to its asyncio.gather
HandlerEnter(h) ==
    /\ pc[h] = "idle"
    /\ IF is_initialized
       THEN /\ pc' = [pc EXCEPT ![h] = "done"]
            /\ UNCHANGED <<clients, pend>>
       ELSE /\ clients' = DOMAIN service_configs
            /\ pc' = [pc EXCEPT ![h] = "probing"]
            /\ pend' = [pend EXCEPT ![h] = DOMAIN service_configs]
    /\ UNCHANGED <<service_configs, tools, rq, ex, tr, errs, tasks, shutdown, service_statuses, healthy_services,
                   specs, is_initialized, seen, probes, gen, loads>>

\* one of the probes a runner gathers ends: _check_service_health
ProbeDone(r, service_name, outcome) ==
    /\ pc[r] = "probing"
    /\ service_name \in pend[r]
    /\ WithinFailureBound(service_name, outcome)
    /\ CheckServiceHealth(service_name, outcome)
    /\ pend' = [pend EXCEPT ![r] = @ \ {service_name}]
    /\ UNCHANGED <<service_configs, clients, tools, rq, ex, tr, errs, tasks, shutdown, specs, is_initialized, pc,
                   seen, probes, gen, loads>>

\* start_monitoring returns, and the monitor task is created, while probes of the
\* eager cycle are still awaited
StartMonitoringReturn_Early(h) ==
    /\ pc[h] = "probing"
    /\ pc' = [pc EXCEPT ![h] = "sleeping", ![MonitorOf(h)] = "waiting",
                         ![RefreshOf(h)] = "sleeping"]
    /\ tasks' = [monitoring_task |-> MonitorOf(h), refresh_task |-> RefreshOf(h)]
    /\ UNCHANGED <<service_configs, clients, tools, rq, ex, tr, errs, shutdown, service_statuses,
                   healthy_services, specs, is_initialized, pend, seen, probes, gen, loads>>

\* start_monitoring: the eager cycle is over, the monitor task is created (lines 28-31);
\* then start_loading -> load_all_specs up to its gather (openapi_loader lines 43, 59-67),
\* or, with no healthy service, on to the creation of the refresh task and the sleep(2)
StartMonitoringReturn(h) ==
    /\ pc[h] = "probing"
    /\ pend[h] = {}
    /\ IF healthy_services # {}
       THEN /\ pc' = [pc EXCEPT ![h] = "loading", ![MonitorOf(h)] = "waiting"]
            /\ pend' = [pend EXCEPT ![h] = healthy_services]
            /\ tasks' = [tasks EXCEPT !.monitoring_task = MonitorOf(h)]
       ELSE /\ pc' = [pc EXCEPT ![h] = "sleeping", ![MonitorOf(h)] = "waiting",
                                ![RefreshOf(h)] = "sleeping"]
            /\ tasks' = [monitoring_task |-> MonitorOf(h), refresh_task |-> RefreshOf(h)]
            /\ UNCHANGED pend
    /\ UNCHANGED <<service_configs, clients, tools, rq, ex, tr, errs, shutdown, service_statuses,
                   healthy_services, specs, is_initialized, seen, probes, gen, loads>>

\* one of the loads a runner gathers ends: load_spec
LoadDone(r, service_name, loaded) ==
    /\ pc[r] = "loading"
    /\ service_name \in pend[r]
    /\ specs' = SpecsAfterLoad(specs, service_name, loaded)
    /\ pend' = [pend EXCEPT ![r] = @ \ {service_name}]
    /\ UNCHANGED <<service_configs, clients, tools, rq, ex, tr, errs, tasks, shutdown, service_statuses,
                   healthy_services, is_initialized, pc, seen, probes, gen, loads>>

\* start_loading: the eager load is over, the refresh task is created (lines 44-45);
\* initialize_components goes on to asyncio.sleep(2) (server.py line 54)
StartLoadingReturn(h) ==
    /\ pc[h] = "loading"
    /\ pend[h] = {}
    /\ pc' = [pc EXCEPT ![h] = "sleeping", ![RefreshOf(h)] = "sleeping"]
    /\ tasks' = [tasks EXCEPT !.refresh_task = RefreshOf(h)]
    /\ UNCHANGED <<service_configs, clients, tools, rq, ex, tr, errs, shutdown, service_statuses,
                   healthy_services, specs, is_initialized, pend, seen, probes, gen, loads>>

\* initialize_components after its sleep: server.py lines 56-72
InitializeFinish(h, order) ==
    /\ pc[h] = "sleeping"
    /\ Regenerate(order)
    /\ is_initialized' = TRUE
    /\ pc' = [pc EXCEPT ![h] = "done"]
    /\ UNCHANGED <<service_configs, clients, rq, ex, tr, errs, tasks, shutdown, service_statuses, healthy_services,
                   specs, pend, seen, probes, loads>>

\* _monitor_services: an iteration starts, _check_all_services up to its gather
MonitorCycleBegin(m) ==
    /\ pc[m] = "waiting"
    /\ pc' = [pc EXCEPT ![m] = "probing"]
    /\ pend' = [pend EXCEPT ![m] = DOMAIN service_configs]
    /\ UNCHANGED <<service_configs, clients, tools, rq, ex, tr, errs, tasks, shutdown, service_statuses,
                   healthy_services, specs, is_initialized, seen, probes, gen, loads>>

\* _monitor_services: the gather is over, the task sleeps check_interval
MonitorCycleEnd(m) ==
    /\ pc[m] = "probing"
    /\ pend[m] = {}
    /\ pc' = [pc EXCEPT ![m] = "waiting"]
    /\ UNCHANGED <<service_configs, clients, tools, rq, ex, tr, errs, tasks, shutdown, service_statuses,
                   healthy_services, specs, is_initialized, pend, seen, probes, gen, loads>>

\* _refresh_specs: the sleep is over, load_all_specs up to its gather; with no healthy
\* service load_all_specs returns at once and the task sleeps again
RefreshCycleBegin(r) ==
    /\ pc[r] = "sleeping"
    /\ healthy_services # {}
    /\ pc' = [pc EXCEPT ![r] = "loading"]
    /\ pend' = [pend EXCEPT ![r] = healthy_services]
    /\ UNCHANGED <<service_configs, clients, tools, rq, ex, tr, errs, tasks, shutdown, service_statuses,
                   healthy_services, specs, is_initialized, seen, probes, gen, loads>>

\* _refresh_specs: the gather is over, the task sleeps refresh_interval
RefreshCycleEnd(r) ==
    /\ pc[r] = "loading"
    /\ pend[r] = {}
    /\ pc' = [pc EXCEPT ![r] = "sleeping"]
    /\ UNCHANGED <<service_configs, clients, tools, rq, ex, tr, errs, tasks, shutdown, service_statuses,
                   healthy_services, specs, is_initialized, pend, seen, probes, gen, loads>>

\* no handler is inside initialize_components and one bring-up has completed: the
\* requests made before the shutdown have been handled
HandlersAtRest == is_initialized /\ \A h \in Handlers : pc[h] \in {"idle", "done"}

\* MCPServer.shutdown, first step: stop_monitoring cancels the task _monitoring_task
\* refers to, the one created by the start_monitoring that returned last, and awaits
\* it.  The cancellation reaches the task at its await: the sleep, or the gather of
\* _check_all_services, which cancels the probes that have not completed; in them
\* CancelledError passes `except Exception`, so they apply no update, and the loop
\* leaves through `except asyncio.CancelledError: break`.  pend keeps the cancelled probes.
StopMonitoring(h) ==
    /\ shutdown = "idle"
    /\ HandlersAtRest
    /\ tasks.monitoring_task = MonitorOf(h)
    /\ pc[MonitorOf(h)] \in {"waiting", "probing"}
    /\ pc' = [pc EXCEPT ![MonitorOf(h)] = "stopped"]
    /\ shutdown' = "stop_loading"
    /\ UNCHANGED <<service_configs, clients, tools, rq, ex, tr, errs, tasks, service_statuses,
                   healthy_services, specs, is_initialized, pend, seen, probes, gen, loads>>

\* MCPServer.shutdown, second step: stop_loading cancels the task _refresh_task refers
\* to and awaits it; the loads of a load_all_specs in progress are cancelled in the
\* same way
StopLoading(h) ==
    /\ shutdown = "stop_loading"
    /\ tasks.refresh_task = RefreshOf(h)
    /\ pc[RefreshOf(h)] \in {"sleeping", "loading"}
    /\ pc' = [pc EXCEPT ![RefreshOf(h)] = "stopped"]
    /\ shutdown' = "close"
    /\ UNCHANGED <<service_configs, clients, tools, rq, ex, tr, errs, tasks, service_statuses,
                   healthy_services, specs, is_initialized, pend, seen, probes, gen, loads>>

\* MCPServer.shutdown, last step: http_client.close() closes every client (the entries
\* stay in self.clients) and shutdown returns
ShutdownReturn ==
    /\ shutdown = "close"
    /\ shutdown' = "returned"
    /\ UNCHANGED <<service_configs, clients, tools, rq, ex, tr, errs, tasks, service_statuses,
                   healthy_services, specs, is_initialized, pc, pend, seen, probes, gen,
                   loads>>

\* ToolGenerator.refresh_tools, on demand
RefreshTools(order) ==
    /\ is_initialized
    /\ Regenerate(order)
    /\ UNCHANGED <<service_configs, clients, rq, ex, tr, errs, tasks, shutdown, service_statuses, healthy_services,
                   specs, is_initialized, pc, pend, seen, probes, loads>>

\* handle_tools_list on the initialized server: list_available_tools reads get_all_tools()
ToolsList ==
    /\ is_initialized
    /\ seen' = [read |-> TRUE, names |-> DOMAIN tools, of |-> gen]
    /\ UNCHANGED <<service_configs, clients, tools, rq, ex, tr, errs, tasks, shutdown, service_statuses,
                   healthy_services, specs, is_initialized, pc, pend, probes, gen, loads>>


(***************************************************************************)
(* ExecSpec: calls of execute_tool and of the HTTP client against a fixed  *)
(* catalog, every attempt's outcome chosen by the backend.                 *)
(***************************************************************************)
\* the specs the executor's catalog is generated from
ExecSpecs ==
    [s \in Services |->
        IF s = SvcA THEN ParseOpenapiSpec(s, RawDoc(<<OpGetItem, OpPostItem>>))
        ELSE ParseOpenapiSpec(s, RawDoc(<<OpGetC, OpHeadC, OpPutItem>>))]

\* the server's components as constructed, for the specifications that do not run them
ServerIdle ==
    /\ service_statuses = EmptyMap
    /\ healthy_services = {}
    /\ specs = EmptyMap
    /\ is_initialized = FALSE
    /\ pc = [r \in Runners |-> IF r \in Handlers THEN "idle" ELSE "none"]
    /\ pend = [r \in Runners |-> {}]
    /\ seen = [read |-> FALSE, names |-> {}, of |-> NoGen]
    /\ probes = [s \in Services |-> <<>>]
    /\ loads = [s \in Services |-> <<>>]
    /\ tr = TrIdle
    /\ errs = NoErrs
    /\ tasks = TasksOf(pc)
    /\ shutdown = "idle"
    /\ gen = NoGen

ExecInit ==
    /\ service_configs \in {[s \in Services |-> [retries |-> n]] : n \in 0..MaxRetries}
    /\ clients = Services
    /\ tools \in {ToolsOfServices(EmptyMap, o, ExecSpecs, Len(o)) : o \in Orders(Services)}
    /\ rq = RqIdle
    /\ ex = ExIdle
    /\ ServerIdle

ExecNext ==
    \/ \E name \in DOMAIN tools \cup {NoSuchTool, ListName}, a \in ArgMaps :
          ExecuteTool(name, a)
    \/ ExecuteFinish
    \/ ExecuteReturn
    \/ RequestReturn
    \/ \E o \in Outcomes : RequestRespond(o)
    \/ RequestWake
    \/ \E s \in Services \cup {SvcUnknown}, m \in {GET, POST} : RequestDirect(s, m)

ExecSpec == ExecInit /\ [][ExecNext]_vars

(***************************************************************************)
(* DispatchSpec: calls of execute_tool against the catalog of ExecSpec     *)
(* while any of the services may have left the healthy set since the       *)
(* catalog was generated.                                                  *)
(***************************************************************************)
DispatchInit ==
    /\ service_configs = [s \in Services |-> [retries |-> MaxRetries]]
    /\ clients = Services
    /\ tools \in {ToolsOfServices(EmptyMap, o, ExecSpecs, Len(o)) : o \in Orders(Services)}
    /\ rq = RqIdle
    /\ ex = ExIdle
    /\ healthy_services \in SUBSET Services
    /\ service_statuses = [s \in Services |-> NewStatus(s \in healthy_services)]
    /\ specs = ExecSpecs
    /\ is_initialized = TRUE
    /\ pc = [r \in Runners |-> IF r = "startup" THEN "done"
                               ELSE IF r \in Handlers THEN "idle"
                               ELSE IF r = MonitorOf("startup") THEN "waiting"
                               ELSE IF r = RefreshOf("startup") THEN "sleeping"
                               ELSE "none"]
    /\ pend = [r \in Runners |-> {}]
    /\ seen = [read |-> FALSE, names |-> {}, of |-> NoGen]
    /\ probes = [s \in Services |-> <<>>]
    /\ loads = [s \in Services |-> <<>>]
    /\ tr = TrIdle
    /\ errs = NoErrs
    /\ tasks = TasksOf(pc)
    /\ shutdown = "idle"
    /\ gen = NoGen

DispatchNext ==
    \/ \E name \in DOMAIN tools \cup {NoSuchTool}, a \in ArgMaps : ExecuteTool(name, a)
    \/ ExecuteFinish
    \/ ExecuteReturn
    \/ \E o \in Outcomes : RequestRespond(o)
    \/ RequestWake

DispatchSpec == DispatchInit /\ [][DispatchNext]_vars


(***************************************************************************)
(* RequestFairSpec: calls of the HTTP client alone.  Every awaited attempt *)
(* ends (the client's timeout bounds it) and every backoff sleep ends.     *)
(***************************************************************************)
RequestNext ==
    \/ \E s \in Services \cup {SvcUnknown}, m \in SupportedMethods : RequestDirect(s, m)
    \/ RequestReturn
    \/ \E o \in Outcomes : RequestRespond(o)
    \/ RequestWake

RequestFairSpec ==
    /\ ExecInit
    /\ [][RequestNext]_vars
    /\ WF_vars(\E o \in Outcomes : RequestRespond(o))
    /\ WF_vars(RequestWake)

(***************************************************************************)
(* TranslateSpec: translate_mcp_to_http applied to every generated tool    *)
(* and every argument dict of up to MaxArgs entries, "body" among the keys.*)
(***************************************************************************)
\* the dict {"n": "7"} and the empty dict, as argument values
VDict == [t |-> "dict", v |-> <<"{","'","n","'",":"," ","'","7","'","}">>]

VEmptyDict == [t |-> "dict", v |-> <<"{","}">>]

\* the text "{x}", a placeholder, as an argument value
VBrace == [t |-> "str", v |-> <<"{","x","}">>]

TranslateArgMaps ==
    UNION {{a \in [1..n -> [key : ArgKeys \cup {BodyName},
                            value : ArgValues \cup {VDict, VEmptyDict, VBrace}]] :
               \A i, j \in 1..n : i # j => a[i].key # a[j].key} : n \in 0..MaxArgs}

\* "get /{q}/{x}", operationId "g": two placeholders, declared in the other order
OpGetPair ==
    [path |-> <<"/","{","q","}","/","{","x","}">>, method |-> <<"g","e","t">>,
     operation |-> Operation(<<"g">>,
                             <<Param(ArgX, "path", TRUE, "string"),
                               Param(ArgQ, "path", TRUE, "string")>>,
                             NoBody)]

TranslateSpecs ==
    [s \in Services |->
        IF s = SvcA THEN ParseOpenapiSpec(s, RawDoc(<<OpGetItem, OpPostItem, OpGetPair>>))
        ELSE ParseOpenapiSpec(s, RawDoc(<<OpGetC, OpHeadC, OpPutItem>>))]

TranslateInit ==
    /\ service_configs = [s \in Services |-> [retries |-> 0]]
    /\ clients = Services
    /\ tools \in {ToolsOfServices(EmptyMap, o, TranslateSpecs, Len(o)) : o \in Orders(Services)}
    /\ rq = RqIdle
    /\ ex = ExIdle
    /\ ServerIdle

TranslateNext ==
    \/ \E name \in DOMAIN tools, a \in TranslateArgMaps : Translate(tools[name], a)
    \/ TranslateReturn

TranslateSpec == TranslateInit /\ [][TranslateNext]_vars

(***************************************************************************)
(* FromHttpSpec: execute_tool against backends whose answers include a     *)
(* 201 and a 200 whose text cannot be read.                                *)
(***************************************************************************)
FromHttpOutcomes ==
    {Response(200, TRUE), Response(200, FALSE), Response(201, TRUE),
     [Response(200, FALSE) EXCEPT !.text = UnreadableText],
     Response(404, FALSE), TransportFailure}

FromHttpInit ==
    /\ service_configs \in {[s \in Services |-> [retries |-> n]] : n \in 0..1}
    /\ clients = Services
    /\ tools \in {ToolsOfServices(EmptyMap, o, ExecSpecs, Len(o)) : o \in Orders(Services)}
    /\ rq = RqIdle
    /\ ex = ExIdle
    /\ ServerIdle

FromHttpNext ==
    \/ \E name \in DOMAIN tools, a \in ArgMaps : ExecuteTool(name, a)
    \/ ExecuteFinish
    \/ ExecuteReturn
    \/ \E o \in FromHttpOutcomes : RequestRespond(o)
    \/ RequestWake

FromHttpSpec == FromHttpInit /\ [][FromHttpNext]_vars

(***************************************************************************)
(* HealthSpec: calls of health_check alone; a backend may also answer 204. *)
(***************************************************************************)
HealthOutcomes == Outcomes \cup {Response(204, FALSE)}

HealthNext ==
    \/ \E s \in Services \cup {SvcUnknown} : HealthCheck(s)
    \/ \E o \in HealthOutcomes : RequestRespond(o)
    \/ RequestWake
    \/ HealthCheckFinish
    \/ HealthCheckReturn

HealthSpec == ExecInit /\ [][HealthNext]_vars

(***************************************************************************)
(* ProbeSpec: calls of _check_service_health alone, as the unit tests make *)
(* them, with every outcome of the awaited health_check; `probes` keeps    *)
(* the outcomes of each backend's probes.                                  *)
(***************************************************************************)
ProbeOutcomes == {"true", "false", "raise"}

Probe(service_name, outcome) ==
    /\ Len(probes[service_name]) < MaxProbes
    /\ CheckServiceHealth(service_name, outcome)
    /\ probes' = [probes EXCEPT ![service_name] = Append(@, outcome)]
    /\ UNCHANGED <<service_configs, clients, tools, rq, ex, tr, errs, tasks, shutdown, specs, is_initialized, pc,
                   pend, seen, gen, loads>>

ProbeInit ==
    /\ service_configs = [s \in Services |-> [retries |-> MaxRetries]]
    /\ clients = Services
    /\ tools = EmptyMap
    /\ rq = RqIdle
    /\ ex = ExIdle
    /\ ServerIdle

ProbeNext == \E s \in Services, o \in ProbeOutcomes : Probe(s, o)

ProbeSpec == ProbeInit /\ [][ProbeNext]_vars

(***************************************************************************)
(* Spec: the server as deployed.  The startup hook brings the components   *)
(* up before any request is served; then the monitor and refresh tasks     *)
(* run, requests read the catalog, and refresh_tools may be called.        *)
(***************************************************************************)
Init ==
    /\ service_configs = [s \in Services |-> [retries |-> MaxRetries]]
    /\ clients = {}
    /\ tools = EmptyMap
    /\ rq = RqIdle
    /\ ex = ExIdle
    /\ ServerIdle

StartupRunners == {"startup", MonitorOf("startup"), RefreshOf("startup")}

\* the steps of the deployed program
ProgramNext ==
    \/ HandlerEnter("startup")
    \/ \E r \in StartupRunners, s \in Services, o \in HealthCheckResults : ProbeDone(r, s, o)
    \/ StartMonitoringReturn("startup")
    \/ \E r \in StartupRunners, s \in Services :
          \E d \in BackendDocs(s) \cup {LoadFailure} : LoadDone(r, s, d)
    \/ StartLoadingReturn("startup")
    \/ \E o \in Orders(healthy_services) : InitializeFinish("startup", o)
    \/ MonitorCycleBegin(MonitorOf("startup"))
    \/ MonitorCycleEnd(MonitorOf("startup"))
    \/ RefreshCycleBegin(RefreshOf("startup"))
    \/ RefreshCycleEnd(RefreshOf("startup"))

Next ==
    \/ ProgramNext
    \/ \E o \in Orders(healthy_services) : RefreshTools(o)
    \/ ToolsList

Spec == Init /\ [][Next]_vars

(***************************************************************************)
(* FairSpec: the deployed program on its own (nothing calls refresh_tools),*)
(* where every awaited probe, load and sleep ends.                         *)
(***************************************************************************)
FairSpec ==
    /\ Init
    /\ [][ProgramNext]_vars
    /\ WF_vars(ProgramNext)
    /\ WF_vars(\E s \in Services, o \in HealthCheckResults :
                  ProbeDone(MonitorOf("startup"), s, o))
    /\ WF_vars(\E s \in Services :
                  \E d \in BackendDocs(s) \cup {LoadFailure} :
                     LoadDone(RefreshOf("startup"), s, d))
    /\ WF_vars(MonitorCycleBegin(MonitorOf("startup")))
    /\ WF_vars(MonitorCycleEnd(MonitorOf("startup")))
    /\ WF_vars(RefreshCycleBegin(RefreshOf("startup")))
    /\ WF_vars(RefreshCycleEnd(RefreshOf("startup")))

(***************************************************************************)
(* CycleSpec: the monitor task alone over a mocked http_client whose       *)
(* health_check may also raise, as the unit tests set it up; `probes`      *)
(* keeps the outcomes of each backend's probes.                            *)
(***************************************************************************)
\* _monitor_services: an iteration starts (followed for MaxProbes iterations)
CycleBegin(m) ==
    /\ \A s \in Services : Len(probes[s]) < MaxProbes
    /\ MonitorCycleBegin(m)

\* one of the probes the cycle gathers ends: _check_service_health
CycleProbe(m, service_name, outcome) ==
    /\ pc[m] = "probing"
    /\ service_name \in pend[m]
    /\ CheckServiceHealth(service_name, outcome)
    /\ probes' = [probes EXCEPT ![service_name] = Append(@, outcome)]
    /\ pend' = [pend EXCEPT ![m] = @ \ {service_name}]
    /\ UNCHANGED <<service_configs, clients, tools, rq, ex, tr, errs, tasks, shutdown, specs, is_initialized, pc,
                   seen, gen, loads>>

CycleInit ==
    /\ service_configs = [s \in Services |-> [retries |-> MaxRetries]]
    /\ clients = Services
    /\ tools = EmptyMap
    /\ rq = RqIdle
    /\ ex = ExIdle
    /\ service_statuses = EmptyMap
    /\ healthy_services = {}
    /\ specs = EmptyMap
    /\ is_initialized = FALSE
    /\ pc = [r \in Runners |-> IF r \in Handlers THEN "idle"
                               ELSE IF r = MonitorOf("startup") THEN "waiting" ELSE "none"]
    /\ pend = [r \in Runners |-> {}]
    /\ seen = [read |-> FALSE, names |-> {}, of |-> NoGen]
    /\ probes = [s \in Services |-> <<>>]
    /\ loads = [s \in Services |-> <<>>]
    /\ tr = TrIdle
    /\ errs = NoErrs
    /\ tasks = TasksOf(pc)
    /\ shutdown = "idle"
    /\ gen = NoGen

CycleNext ==
    \/ CycleBegin(MonitorOf("startup"))
    \/ \E s \in Services, o \in ProbeOutcomes : CycleProbe(MonitorOf("startup"), s, o)
    \/ MonitorCycleEnd(MonitorOf("startup"))

CycleSpec == CycleInit /\ [][CycleNext]_vars

(***************************************************************************)
(* ConcurrentSpec: callers that create _check_service_health tasks for any *)
(* backends and gather them, as test_concurrent_health_checks does, so     *)
(* that several probes of one backend are in flight at once.               *)
(***************************************************************************)
MaxConcurrentProbes == 3

Callers == {"request1", "request2"}

\* the probes of backend s that are in flight
InFlight(s) == Cardinality({c \in Callers : pc[c] = "probing" /\ s \in pend[c]})

\* a caller creates one task per backend of S and awaits their gather
ProbesStart(c, S) ==
    /\ pc[c] = "idle"
    /\ S # {}
    /\ \A s \in S : Len(probes[s]) + InFlight(s) < MaxConcurrentProbes
    /\ pc' = [pc EXCEPT ![c] = "probing"]
    /\ pend' = [pend EXCEPT ![c] = S]
    /\ UNCHANGED <<service_configs, clients, tools, rq, ex, tr, errs, tasks, shutdown, service_statuses,
                   healthy_services, specs, is_initialized, seen, probes, gen, loads>>

\* the gather is over
ProbesGathered(c) ==
    /\ pc[c] = "probing"
    /\ pend[c] = {}
    /\ pc' = [pc EXCEPT ![c] = "idle"]
    /\ UNCHANGED <<service_configs, clients, tools, rq, ex, tr, errs, tasks, shutdown, service_statuses,
                   healthy_services, specs, is_initialized, pend, seen, probes, gen, loads>>

ConcurrentNext ==
    \/ \E c \in Callers, S \in SUBSET Services : ProbesStart(c, S)
    \/ \E c \in Callers, s \in Services, o \in ProbeOutcomes : CycleProbe(c, s, o)
    \/ \E c \in Callers : ProbesGathered(c)

ConcurrentSpec == ProbeInit /\ [][ConcurrentNext]_vars

(***************************************************************************)
(* LoadSpec: the refresh task alone, over a service discovery whose        *)
(* healthy set is fixed, as the unit tests set it up; `loads` keeps what   *)
(* each load of a backend's document gave.                                 *)
(***************************************************************************)
\* _refresh_specs: the sleep is over (followed for MaxLoads iterations)
LoadCycleBegin(r) ==
    /\ \A s \in Services : Len(loads[s]) < MaxLoads
    /\ RefreshCycleBegin(r)

\* one of the loads the cycle gathers ends: load_spec
LoadCycleLoad(r, service_name, loaded) ==
    /\ pc[r] = "loading"
    /\ service_name \in pend[r]
    /\ specs' = SpecsAfterLoad(specs, service_name, loaded)
    /\ loads' = [loads EXCEPT ![service_name] = Append(@, loaded)]
    /\ pend' = [pend EXCEPT ![r] = @ \ {service_name}]
    /\ UNCHANGED <<service_configs, clients, tools, rq, ex, tr, errs, tasks, shutdown, service_statuses,
                   healthy_services, is_initialized, pc, seen, probes, gen>>

LoadInit ==
    /\ service_configs = [s \in Services |-> [retries |-> MaxRetries]]
    /\ clients = Services
    /\ tools = EmptyMap
    /\ rq = RqIdle
    /\ ex = ExIdle
    /\ healthy_services \in SUBSET Services
    /\ service_statuses = [s \in Services |-> NewStatus(s \in healthy_services)]
    /\ specs = EmptyMap
    /\ is_initialized = FALSE
    /\ pc = [r \in Runners |-> IF r \in Handlers THEN "idle"
                               ELSE IF r = RefreshOf("startup") THEN "sleeping" ELSE "none"]
    /\ pend = [r \in Runners |-> {}]
    /\ seen = [read |-> FALSE, names |-> {}, of |-> NoGen]
    /\ probes = [s \in Services |-> <<>>]
    /\ loads = [s \in Services |-> <<>>]
    /\ tr = TrIdle
    /\ errs = NoErrs
    /\ tasks = TasksOf(pc)
    /\ shutdown = "idle"
    /\ gen = NoGen

LoadNext ==
    \/ LoadCycleBegin(RefreshOf("startup"))
    \/ \E s \in Services :
          \E d \in BackendDocs(s) \cup {LoadFailure} :
             LoadCycleLoad(RefreshOf("startup"), s, d)
    \/ RefreshCycleEnd(RefreshOf("startup"))

LoadSpec == LoadInit /\ [][LoadNext]_vars

(***************************************************************************)
(* ParseSpec: the refresh cycles of LoadSpec, where a backend may also     *)
(* serve a document that has no "paths" object.                            *)
(***************************************************************************)
\* a JSON object without "paths": raw_spec.get("paths", {}) is empty
NoPathsDoc == [has_paths |-> FALSE, ops |-> <<>>]

ParseDocs(s) == BackendDocs(s) \cup {NoPathsDoc}

ParseNext ==
    \/ LoadCycleBegin(RefreshOf("startup"))
    \/ \E s \in Services :
          \E d \in ParseDocs(s) \cup {LoadFailure} :
             LoadCycleLoad(RefreshOf("startup"), s, d)
    \/ RefreshCycleEnd(RefreshOf("startup"))

ParseSpec == LoadInit /\ [][ParseNext]_vars

(***************************************************************************)
(* LoopSpec: the monitor task and the refresh task after the bring-up,     *)
(* where an iteration may raise an exception other than CancelledError,    *)
(* nothing requests a stop, and every awaited probe, load and sleep ends.  *)
(* `errs` counts the iterations of each task that raised.                  *)
(***************************************************************************)
MaxErrors == 2

\* the loop ends with the exception
AfterIterationError_Ends(task) == "ended"

\* where a task is after `except Exception` caught the exception of an iteration:
\* _monitor_services in its sleep(5), _refresh_specs in the sleep of its next iteration
AfterIterationError(task) ==
    IF task \in MonitorTasks THEN "waiting" ELSE "sleeping"

\* an await of the loop body of _monitor_services raises: the sleep, or
\* _check_all_services once its gather is over
MonitorIterationRaises(m) ==
    /\ pc[m] \in {"waiting", "probing"}
    /\ pend[m] = {}
    /\ errs[m] < MaxErrors
    /\ pc' = [pc EXCEPT ![m] = AfterIterationError(m)]
    /\ errs' = [errs EXCEPT ![m] = @ + 1]
    /\ UNCHANGED <<service_configs, clients, tools, rq, ex, tr, tasks, shutdown,
                   service_statuses, healthy_services, specs, is_initialized, pend, seen,
                   probes, gen, loads>>

\* an await of the loop body of _refresh_specs raises: the sleep, or load_all_specs
\* once its gather is over
RefreshIterationRaises(r) ==
    /\ pc[r] \in {"sleeping", "loading"}
    /\ pend[r] = {}
    /\ errs[r] < MaxErrors
    /\ pc' = [pc EXCEPT ![r] = AfterIterationError(r)]
    /\ errs' = [errs EXCEPT ![r] = @ + 1]
    /\ UNCHANGED <<service_configs, clients, tools, rq, ex, tr, tasks, shutdown,
                   service_statuses, healthy_services, specs, is_initialized, pend, seen,
                   probes, gen, loads>>

\* _refresh_specs: the sleep is over, load_all_specs up to its gather (over no task
\* when no service is healthy)
LoopRefreshBegin(r) ==
    /\ pc[r] = "sleeping"
    /\ pc' = [pc EXCEPT ![r] = "loading"]
    /\ pend' = [pend EXCEPT ![r] = healthy_services]
    /\ UNCHANGED <<service_configs, clients, tools, rq, ex, tr, errs, tasks, shutdown, service_statuses,
                   healthy_services, specs, is_initialized, seen, probes, gen, loads>>

LoopInit ==
    /\ service_configs = [s \in Services |-> [retries |-> MaxRetries]]
    /\ clients = Services
    /\ tools = EmptyMap
    /\ rq = RqIdle
    /\ ex = ExIdle
    /\ healthy_services \in SUBSET Services
    /\ service_statuses = [s \in Services |-> NewStatus(s \in healthy_services)]
    /\ specs = EmptyMap
    /\ is_initialized = TRUE
    /\ pc = [r \in Runners |-> IF r = "startup" THEN "done"
                               ELSE IF r \in Handlers THEN "idle"
                               ELSE IF r = MonitorOf("startup") THEN "waiting"
                               ELSE IF r = RefreshOf("startup") THEN "sleeping"
                               ELSE "none"]
    /\ pend = [r \in Runners |-> {}]
    /\ seen = [read |-> FALSE, names |-> {}, of |-> NoGen]
    /\ probes = [s \in Services |-> <<>>]
    /\ loads = [s \in Services |-> <<>>]
    /\ tr = TrIdle
    /\ errs = NoErrs
    /\ tasks = TasksOf(pc)
    /\ shutdown = "idle"
    /\ gen = NoGen

LoopNext ==
    \/ MonitorCycleBegin(MonitorOf("startup"))
    \/ \E s \in Services, o \in HealthCheckResults : ProbeDone(MonitorOf("startup"), s, o)
    \/ MonitorCycleEnd(MonitorOf("startup"))
    \/ MonitorIterationRaises(MonitorOf("startup"))
    \/ LoopRefreshBegin(RefreshOf("startup"))
    \/ \E s \in Services :
          \E d \in BackendDocs(s) \cup {LoadFailure} : LoadDone(RefreshOf("startup"), s, d)
    \/ RefreshCycleEnd(RefreshOf("startup"))
    \/ RefreshIterationRaises(RefreshOf("startup"))

LoopSpec ==
    /\ LoopInit
    /\ [][LoopNext]_vars
    /\ WF_vars(MonitorCycleBegin(MonitorOf("startup")))
    /\ WF_vars(\E s \in Services, o \in HealthCheckResults :
                  ProbeDone(MonitorOf("startup"), s, o))
    /\ WF_vars(MonitorCycleEnd(MonitorOf("startup")))
    /\ WF_vars(LoopRefreshBegin(RefreshOf("startup")))
    /\ WF_vars(\E s \in Services :
                  \E d \in BackendDocs(s) \cup {LoadFailure} :
                     LoadDone(RefreshOf("startup"), s, d))
    /\ WF_vars(RefreshCycleEnd(RefreshOf("startup")))

(***************************************************************************)
(* SchemaSpec: generate_all_tools at the end of a bring-up, over the       *)
(* document of one healthy service that declares one operation, drawn from *)
(* SchemaOps.                                                              *)
(***************************************************************************)
\* the largest number of parameters of an operation that is tried
MaxParams == 2

\* a request body whose schema is not an object
ValueBody(type) ==
    [present |-> TRUE, schema |-> [type |-> type, properties |-> <<>>, required |-> <<>>]]

SchemaParams ==
    {Param(ArgX, "path", TRUE, "string"), Param(ArgX, "path", FALSE, "string"),
     Param(ArgX, "query", TRUE, "integer"), Param(ArgQ, "query", TRUE, "integer"),
     Param(ArgQ, "query", FALSE, "integer"), Param(BodyName, "query", TRUE, "string")}

SchemaBodies ==
    {NoBody,
     ObjectBody(<<[name |-> ArgN, type |-> "string"]>>, <<ArgN>>),
     ObjectBody(<<[name |-> ArgN, type |-> "string"], [name |-> ArgQ, type |-> "string"]>>,
                <<ArgQ, ArgN, ArgQ>>),
     ValueBody("string"),
     ValueBody("array")}

\* "post /i/{x}", operationId "p", with every choice of parameters and body
SchemaOps ==
    {[path |-> <<"/","i","/","{","x","}">>, method |-> <<"p","o","s","t">>,
      operation |-> Operation(<<"p">>, ps, b)] :
        ps \in UNION {[1..n -> SchemaParams] : n \in 0..MaxParams}, b \in SchemaBodies}

\* initialize_components of the startup hook is in its sleep: service a is healthy and
\* its document is loaded
SchemaInit ==
    /\ service_configs = [s \in Services |-> [retries |-> MaxRetries]]
    /\ clients = Services
    /\ tools = EmptyMap
    /\ rq = RqIdle
    /\ ex = ExIdle
    /\ healthy_services = {SvcA}
    /\ service_statuses = [s \in Services |-> NewStatus(s \in healthy_services)]
    /\ \E op \in SchemaOps : specs = (SvcA :> ParseOpenapiSpec(SvcA, RawDoc(<<op>>)))
    /\ is_initialized = FALSE
    /\ pc = [r \in Runners |-> IF r = "startup" THEN "sleeping"
                               ELSE IF r \in Handlers THEN "idle"
                               ELSE IF r = MonitorOf("startup") THEN "waiting"
                               ELSE IF r = RefreshOf("startup") THEN "sleeping"
                               ELSE "none"]
    /\ pend = [r \in Runners |-> {}]
    /\ seen = [read |-> FALSE, names |-> {}, of |-> NoGen]
    /\ probes = [s \in Services |-> <<>>]
    /\ loads = [s \in Services |-> <<>>]
    /\ tr = TrIdle
    /\ errs = NoErrs
    /\ tasks = TasksOf(pc)
    /\ shutdown = "idle"
    /\ gen = NoGen

SchemaNext ==
    \/ \E o \in Orders(healthy_services) : InitializeFinish("startup", o)
    \/ ToolsList

SchemaSpec == SchemaInit /\ [][SchemaNext]_vars

(***************************************************************************)
(* StopSpec: the deployed program and its shutdown hook.                   *)
(***************************************************************************)
StopNext ==
    \/ ProgramNext
    \/ StopMonitoring("startup")
    \/ StopLoading("startup")
    \/ ShutdownReturn

StopSpec == Init /\ [][StopNext]_vars

(***************************************************************************)
(* RaceSpec: the server mounted without its startup hook having run; two   *)
(* requests arrive and each runs the lazy bring-up of its handler.  The    *)
(* background tasks are created but not followed.                          *)
(***************************************************************************)
RaceHandlers == {"request1", "request2"}

RaceNext ==
    \/ \E h \in RaceHandlers : HandlerEnter(h)
    \/ \E h \in RaceHandlers, s \in Services, o \in HealthCheckResults : ProbeDone(h, s, o)
    \/ \E h \in RaceHandlers : StartMonitoringReturn(h)
    \/ \E h \in RaceHandlers, s \in Services :
          \E d \in BackendDocs(s) \cup {LoadFailure} : LoadDone(h, s, d)
    \/ \E h \in RaceHandlers : StartLoadingReturn(h)
    \/ \E h \in RaceHandlers, o \in Orders(healthy_services) : InitializeFinish(h, o)

RaceSpec == Init /\ [][RaceNext]_vars

(***************************************************************************)
(* ShutdownSpec: the requests of RaceSpec, the background tasks their      *)
(* bring-ups created, and then MCPServer.shutdown.  The monitor tasks are  *)
(* followed through their cycles (check_interval, 30 s); the refresh tasks *)
(* stay in their first sleep (refresh_interval, 300 s).                    *)
(***************************************************************************)
RaceTasks == {MonitorOf(h) : h \in RaceHandlers}

ShutdownNext ==
    \/ RaceNext
    \/ \E m \in RaceTasks, s \in Services, o \in HealthCheckResults : ProbeDone(m, s, o)
    \/ \E h \in RaceHandlers : MonitorCycleBegin(MonitorOf(h))
    \/ \E h \in RaceHandlers : MonitorCycleEnd(MonitorOf(h))
    \/ \E h \in RaceHandlers : StopMonitoring(h)
    \/ \E h \in RaceHandlers : StopLoading(h)
    \/ ShutdownReturn

ShutdownSpec == Init /\ [][ShutdownNext]_vars


(***************************************************************************)
(* Properties of BackendHTTPClient._request.                               *)
(***************************************************************************)
Retries == service_configs[rq.service].retries

IsSuccess(o) == o.kind = "response" /\ o.status < 400

Is4xx(o) == o.kind = "response" /\ o.status >= 400 /\ o.status < 500

Is5xx(o) == o.kind = "response" /\ o.status >= 500

IsTransport(o) == o.kind = "transport"

\* the first delays of the exponential backoff, in seconds
ExpectedDelays == <<1, 2, 4, 8, 16, 32>>

\* the request in progress has had only 5xx answers so far
OnlyServerErrors == rq.outcomes # <<>> /\ \A i \in DOMAIN rq.outcomes : Is5xx(rq.outcomes[i])

\* C2: against a backend that answers 5xx on every attempt, a request with retry
\* budget n is not over before attempt n+1 has failed; it then has made exactly n+1
\* attempts, has slept 1, 2, 4, ..., 2^(n-1) seconds (2^k after failed attempt k, nothing
\* after the last one) and raises the status error of the last attempt.
C2_ServerErrorRetries ==
    OnlyServerErrors =>
        /\ rq.sleeps = SubSeq(ExpectedDelays, 1, Len(rq.sleeps))
        /\ IF Len(rq.outcomes) < Retries + 1
           THEN /\ rq.pc \in {"sleeping", "awaiting"}
                /\ Len(rq.sleeps) = Len(rq.outcomes)
           ELSE /\ rq.pc = "raised"
                /\ rq.calls = Retries + 1
                /\ Len(rq.outcomes) = Retries + 1
                /\ Len(rq.sleeps) = Retries
                /\ rq.result = [kind |-> "HTTPStatusError",
                                response |-> rq.outcomes[Retries + 1]]

\* a budget of two retries is used up by three 500 answers, after sleeps of 1 s and 2 s
C2_Witness ==
    /\ rq.pc = "raised"
    /\ OnlyServerErrors
    /\ rq.calls = 3
    /\ rq.sleeps = <<1, 2>>

\* C3: a 4xx answer on any attempt ends the request at once: it is the last attempt,
\* the status error of that answer is raised, and no backoff delay follows it, whatever
\* budget remains; a backend that answers 404 first is called exactly once.
C3_ClientErrorEndsRequest ==
    \A k \in DOMAIN rq.outcomes :
        Is4xx(rq.outcomes[k]) =>
            /\ k = Len(rq.outcomes)
            /\ rq.pc = "raised"
            /\ rq.calls = k
            /\ Len(rq.sleeps) = k - 1
            /\ rq.result = [kind |-> "HTTPStatusError", response |-> rq.outcomes[k]]

\* a 404 on the second attempt with two retries still unused
C3_Witness ==
    /\ rq.pc = "raised"
    /\ Len(rq.outcomes) = 2
    /\ Is4xx(rq.outcomes[2])
    /\ Retries = 3
    /\ rq.calls = 2

\* what _request guarantees while a call to a configured service is in progress or over
RequestBounded ==
    (rq.pc # "idle" /\ rq.service \in clients) =>
        /\ rq.calls <= Retries + 1
        /\ \A i \in DOMAIN rq.outcomes :
              IsSuccess(rq.outcomes[i]) =>
                  /\ i = Len(rq.outcomes)
                  /\ rq.calls = i
                  /\ rq.pc = "returned"
                  /\ rq.result = [kind |-> "response", response |-> rq.outcomes[i]]
        /\ rq.pc = "returned" => IsSuccess(rq.outcomes[Len(rq.outcomes)])
        /\ Len(rq.outcomes) = Retries + 1 => rq.pc \in {"returned", "raised"}
        /\ (rq.pc = "raised" /\ ~Is4xx(rq.outcomes[Len(rq.outcomes)])) =>
              /\ Len(rq.outcomes) = Retries + 1
              /\ rq.result.response = rq.outcomes[Retries + 1]
              /\ rq.result.kind = IF IsTransport(rq.outcomes[Retries + 1])
                                  THEN "RequestError" ELSE "HTTPStatusError"

\* C4: whatever the attempts give (success, 5xx, transport failure), a request ends:
\* it makes at most retries+1 attempts, returns the response of the first successful
\* attempt without another attempt, and after the (retries+1)-th failed attempt raises
\* that last failure (status error or transport error).
C4_RequestTerminates ==
    /\ []RequestBounded
    /\ (rq.pc \in {"awaiting", "sleeping"}) ~> (rq.pc \in {"returned", "raised"})

\* 5xx, then a transport failure, then success on the last attempt of a budget of two
C4_Witness ==
    /\ rq.pc = "returned"
    /\ Retries = 2
    /\ Len(rq.outcomes) = 3
    /\ Is5xx(rq.outcomes[1])
    /\ IsTransport(rq.outcomes[2])

(***************************************************************************)
(* Properties of ToolExecutor.execute_tool.                                *)
(***************************************************************************)
\* C1: execute_tool always returns a result and never raises, whatever the name, the
\* arguments and the outcome of lookup, validation, translation and dispatch; when one
\* of these steps fails the result has isError = true and carries an error code.
C1_ExecuteNeverRaises ==
    ex.pc = "done" =>
        /\ ~ex.raised
        /\ ex.step \in {"lookup", "validate", "translate", "dispatch"} =>
              /\ ex.result.isError
              /\ ex.result.meta.present
              /\ ex.result.meta.error_code \in {400, 404, 500, 503}

\* a tool name that cannot be looked up (any other exception) gives code 500
C1_Witness ==
    /\ ex.pc = "done"
    /\ ex.tool_name = ListName
    /\ ex.step = "lookup"
    /\ ex.result.meta.error_code = 500


(***************************************************************************)
(* Properties of the tool catalog.                                         *)
(***************************************************************************)
\* the mapping a whole run of generate_all_tools over the inputs g yields
CompleteMapping(g) == ToolsOfServices(EmptyMap, g.order, g.specs, Len(g.order))

\* C5: whenever a reader (get_tool, get_all_tools, tools/list, the executor's lookup)
\* runs, the mapping it observes is the complete result of the last regeneration (the
\* previous one until the new one is complete), never a cleared or partly filled
\* one; the same holds of what a tools/list response was built from.
C5_ReadersSeeCompleteMapping ==
    /\ tools = CompleteMapping(gen)
    /\ seen.read => seen.names = DOMAIN CompleteMapping(seen.of)

\* a tools/list response built from the previous mapping, and a later regeneration
\* that gave a different non-empty mapping
C5_Witness ==
    /\ seen.read
    /\ seen.names # {}
    /\ tools # EmptyMap
    /\ seen.names # DOMAIN tools
    /\ seen.of.ran

\* the (service, endpoint) pairs a regeneration over the inputs g visits
EndpointPairs(g) ==
    UNION {{<<s, i>> : i \in 1..Len(g.specs[s].endpoints)} :
              s \in g.healthy \cap DOMAIN g.specs}

\* C8: after a regeneration the catalog holds exactly one tool per endpoint of every
\* healthy service with a stored document, i.e. no two (service, endpoint) pairs
\* were given the same name.
C8_ToolNamesUnique ==
    gen.ran => Cardinality(DOMAIN tools) = Cardinality(EndpointPairs(gen))

\* C9: every tool of the catalog belongs to a service that was healthy and had a
\* stored document when the last regeneration ran; a service that was not healthy
\* then, or had no document, has no tools.
C9_ToolsOfHealthyServicesOnly ==
    \A n \in DOMAIN tools :
        /\ tools[n].service_name \in gen.healthy
        /\ tools[n].service_name \in DOMAIN gen.specs

\* a regeneration that gave tools while a service with a stored, non-empty document
\* was not healthy, and so got none
C9_Witness ==
    /\ gen.ran
    /\ tools # EmptyMap
    /\ \E s \in DOMAIN gen.specs :
          /\ s \notin gen.healthy
          /\ gen.specs[s].endpoints # <<>>
          /\ \A n \in DOMAIN tools : tools[n].service_name # s

HasTools(s) == \E n \in DOMAIN tools : tools[n].service_name = s

Ready(s) == s \in healthy_services /\ s \in DOMAIN specs /\ specs[s].endpoints # <<>>

\* C7: the catalog follows the refresh cycles: a service that is unhealthy eventually
\* has no tools (unless it recovers), and a service that is healthy with a loaded,
\* non-empty document eventually has its tools (unless it stops being so).
C7_CatalogFollowsRefresh ==
    \A s \in Services :
        /\ (s \notin healthy_services) ~> (~HasTools(s) \/ s \in healthy_services)
        /\ Ready(s) ~> (HasTools(s) \/ ~Ready(s))

(***************************************************************************)
(* Properties of the bring-up.                                             *)
(***************************************************************************)
\* C6: bring-up is performed at most once: at most one handler is ever in
\* initialize_components, at most one monitor task and at most one refresh task
\* are ever created.
C6_BringUpOnce ==
    /\ Cardinality({h \in Handlers : pc[h] \in {"probing", "loading", "sleeping"}}) <= 1
    /\ Cardinality({m \in MonitorTasks : pc[m] # "none"}) <= 1
    /\ Cardinality({r \in RefreshTasks : pc[r] # "none"}) <= 1

(***************************************************************************)
(* Properties of ServiceDiscovery._check_service_health.                   *)
(***************************************************************************)
\* the number of failed probes since the last successful one
RECURSIVE TrailingFailures(_)
TrailingFailures(h) ==
    IF h = <<>> THEN 0
    ELSE IF h[Len(h)] = "true" THEN 0
    ELSE 1 + TrailingFailures(SubSeq(h, 1, Len(h) - 1))

\* consecutive_failures of a backend; a backend without a record counts as 0
ConsecutiveFailures(s) ==
    IF s \in DOMAIN service_statuses THEN service_statuses[s].consecutive_failures ELSE 0

\* C10: after any sequence of probes from Unknown, consecutive_failures is the number
\* of failed probes (false or exception) since the last successful one, and the
\* backend is in the healthy set exactly when its last probe succeeded.
C10_FailuresCounted ==
    \A s \in Services :
        probes[s] # <<>> =>
            /\ ConsecutiveFailures(s) = TrailingFailures(probes[s])
            /\ s \in healthy_services <=> probes[s][Len(probes[s])] = "true"

\* C11: a probe that raises, in any state of the backend (the first probe included),
\* leaves a record of the backend with is_healthy false, consecutive_failures one
\* more than before (0 for a backend without a record), last_error the exception's
\* text, and the backend out of the healthy set.
C11_RaisingProbeRecorded ==
    [][\A s \in Services :
          (probes'[s] # probes[s] /\ probes'[s][Len(probes'[s])] = "raise") =>
              /\ s \in DOMAIN service_statuses'
              /\ ~service_statuses'[s].is_healthy
              /\ service_statuses'[s].consecutive_failures = ConsecutiveFailures(s) + 1
              /\ service_statuses'[s].last_error = ExceptionText
              /\ s \notin healthy_services']_vars

(***************************************************************************)
(* Properties of the shutdown.                                             *)
(***************************************************************************)
\* C12: a stopped loop has no unfinished work: every probe (or load) of the cycle
\* that was running when stop was requested has completed and applied its update.
C12_StopFinishesCycle ==
    \A r \in MonitorTasks \cup RefreshTasks : pc[r] = "stopped" => pend[r] = {}

(***************************************************************************)
(* Properties of a health refresh cycle.                                   *)
(***************************************************************************)
\* the records after the probes h[1..n] of backend s alone, from no record
RECURSIVE ReplayStatuses(_, _, _)
ReplayStatuses(s, h, n) ==
    IF n = 0 THEN EmptyMap
    ELSE StatusesAfterProbe(ReplayStatuses(s, h, n - 1), s, h[n])

\* the healthy set after the probes h[1..n] of backend s alone, from the empty set
RECURSIVE ReplayHealthy(_, _, _)
ReplayHealthy(s, h, n) ==
    IF n = 0 THEN {}
    ELSE HealthyAfterProbe(ReplayHealthy(s, h, n - 1), ReplayStatuses(s, h, n - 1), s, h[n])

\* C13: in every cycle each configured backend is probed exactly once (a backend whose
\* probe of the running cycle has ended was probed once more than one whose probe has
\* not; between cycles all were probed equally often), and what a backend's record and
\* healthy-set membership are depends on its own probes only, whatever the outcomes
\* (true, false, exception) of the other backends' probes.
C13_ProbesIndependent ==
    LET m == MonitorOf("startup")
        done(s) == IF pc[m] = "probing" /\ s \notin pend[m] THEN 1 ELSE 0
    IN  /\ \A s, t \in DOMAIN service_configs :
               Len(probes[s]) - done(s) = Len(probes[t]) - done(t)
        /\ \A s \in DOMAIN service_configs :
               LET n == Len(probes[s])
                   r == ReplayStatuses(s, probes[s], n)
               IN  /\ (s \in DOMAIN service_statuses) <=> (s \in DOMAIN r)
                   /\ s \in DOMAIN r => service_statuses[s] = r[s]
                   /\ (s \in healthy_services) <=> (s \in ReplayHealthy(s, probes[s], n))

\* two whole cycles: one backend's probe raised and then returned false while the
\* other's succeeded twice and is healthy
C13_Witness ==
    /\ pc[MonitorOf("startup")] = "waiting"
    /\ probes[SvcA] = <<"raise", "false">>
    /\ probes[SvcB] = <<"true", "true">>
    /\ healthy_services = {SvcB}
    /\ SvcA \in DOMAIN service_statuses

(***************************************************************************)
(* Properties of the loading of API documents.                             *)
(***************************************************************************)
\* the last of the loads h[1..n] that did not fail, or LoadFailure if all failed
RECURSIVE LastLoaded(_, _)
LastLoaded(h, n) ==
    IF n = 0 THEN LoadFailure
    ELSE IF h[n] # LoadFailure THEN h[n]
    ELSE LastLoaded(h, n - 1)

\* C14: the document stored for a service is the one its last successful load gave
\* (none if no load succeeded): a failed load leaves what was stored as it is, and
\* the loads of the other services of the cycle are stored whatever it did; a
\* service that is not healthy is not loaded.
C14_FailedLoadKeepsDocument ==
    \A s \in Services :
        LET last == LastLoaded(loads[s], Len(loads[s]))
        IN  /\ (s \in DOMAIN specs) <=> (last # LoadFailure)
            /\ s \in DOMAIN specs => specs[s] = ParseOpenapiSpec(s, last)
            /\ s \notin healthy_services => loads[s] = <<>>

\* two whole cycles: the second load of one service failed after its first was
\* stored, and the other service's second load replaced its document
C14_Witness ==
    /\ pc[RefreshOf("startup")] = "sleeping"
    /\ loads[SvcB] = <<RawDoc(<<OpGetC, OpHeadC>>), LoadFailure>>
    /\ loads[SvcA] = <<RawDoc(<<OpGetItem, OpPostItem>>), RawDoc(<<OpGetItem, OpDeleteC>>)>>
    /\ SvcB \in DOMAIN specs
    /\ specs[SvcA] = ParseOpenapiSpec(SvcA, RawDoc(<<OpGetItem, OpDeleteC>>))

(***************************************************************************)
(* Properties of the steps of ToolExecutor.execute_tool.                   *)
(***************************************************************************)
\* C15: a call for a name that is not in the catalog ends at the lookup with
\* isError = true, error code 404 and the text "Tool not found: <name>"; no request
\* is made to a backend.  (The catalog is not changed by any step of execute_tool.)
C15_UnknownToolIs404 ==
    (ex.pc = "done" /\ ex.tool_name # ListName /\ ex.tool_name \notin DOMAIN tools) =>
        /\ ex.step = "lookup"
        /\ ex.result.isError
        /\ ex.result.meta.error_code = 404
        /\ ex.result.text.body = Msg("Tool not found: {}", <<ex.tool_name>>, <<>>)
        /\ rq = RqIdle

\* an unknown name called with arguments
C15_Witness ==
    /\ ex.pc = "done"
    /\ ex.tool_name = NoSuchTool
    /\ Len(ex.arguments) = 2
    /\ ex.result.meta.error_code = 404

\* the required fields of the schema that the arguments lack, in required-list order
MissingRequired(tool, arguments) ==
    LET required == tool.input_schema.required
    IN  {i \in DOMAIN required : \A j \in DOMAIN arguments : arguments[j].key # required[i]}

\* C16: when a field of the schema's required list is absent from the arguments, the
\* call ends at the validation with isError = true, code 400 and a message naming the
\* first missing field in required-list order; no request is made to a backend.
C16_MissingRequiredIs400 ==
    (ex.pc = "done" /\ ex.tool_name \in DOMAIN tools) =>
        LET tool == tools[ex.tool_name]
            missing == MissingRequired(tool, ex.arguments)
            first == CHOOSE i \in missing : \A j \in missing : i <= j
        IN  missing # {} =>
               /\ ex.step = "validate"
               /\ ex.result.isError
               /\ ex.result.meta.error_code = 400
               /\ ex.result.text.body =
                     Msg("Missing required parameter: {}",
                         <<tool.input_schema.required[first]>>, <<>>)
               /\ rq = RqIdle

\* a tool whose required list is x, q, n called with x and n: q is reported
C16_Witness ==
    /\ ex.pc = "done"
    /\ ex.tool_name \in DOMAIN tools
    /\ tools[ex.tool_name].input_schema.required = <<ArgX, ArgQ, ArgN>>
    /\ Keys(ex.arguments) = {ArgX, ArgN}
    /\ ex.result.text.body = Msg("Missing required parameter: {}", <<ArgQ>>, <<>>)

\* the JSON type of a Python value, by its type name
JsonType(value) ==
    CASE value.t = "str"   -> "string"
      [] value.t = "int"   -> "integer"
      [] value.t = "float" -> "number"
      [] value.t = "bool"  -> "boolean"
      [] value.t = "list"  -> "array"
      [] value.t = "dict"  -> "object"
      [] OTHER -> "null"

\* the declared types that are checked
CheckedTypes == {"string", "integer", "number", "boolean", "array", "object"}

\* a value is of the declared type; an integer is also a number
Conforms(value, declared) ==
    \/ JsonType(value) = declared
    \/ declared = "number" /\ JsonType(value) = "integer"

\* C17: when no required field is missing, an argument whose declared type is one of
\* the six checked types and whose value is of another JSON type (a boolean for an
\* integer or number included) ends the call at the validation with code 400 and a
\* message naming the field, the declared and the observed type, without a request to
\* a backend; when there is no such argument the validation passes.
C17_TypeMismatchIs400 ==
    (ex.pc = "done" /\ ex.tool_name \in DOMAIN tools) =>
        LET tool == tools[ex.tool_name]
            properties == tool.input_schema.properties
            bad == {j \in DOMAIN ex.arguments :
                       /\ ex.arguments[j].key \in DOMAIN properties
                       /\ properties[ex.arguments[j].key].type \in CheckedTypes
                       /\ ~Conforms(ex.arguments[j].value,
                                    properties[ex.arguments[j].key].type)}
        IN  MissingRequired(tool, ex.arguments) = {} =>
               IF bad = {} THEN ex.step # "validate"
               ELSE /\ ex.step = "validate"
                    /\ ex.result.isError
                    /\ ex.result.meta.error_code = 400
                    /\ \E j \in bad :
                          ex.result.text.body =
                             Msg("Invalid type for parameter '{}': expected {}, got {}",
                                 <<ex.arguments[j].key>>,
                                 <<properties[ex.arguments[j].key].type,
                                   ex.arguments[j].value.t>>)
                    /\ rq = RqIdle

\* C18: when the dispatch ends with an upstream status error of status s (a 4xx at the
\* attempt that got it, a 5xx after retries + 1 attempts) the result has isError = true, code s and a
\* text with s and the backend's body text; when it ends with a transport failure the
\* code is 503; any other exception in execute_tool (an unhashable name, a missing
\* path parameter) gives code 500.
C18_DispatchErrorCodes ==
    ex.pc = "done" =>
        /\ (ex.step = "dispatch" /\ rq.pc = "raised" /\ rq.result.kind = "HTTPStatusError") =>
              LET status == rq.result.response.status
              IN  /\ ex.result.isError
                  /\ ex.result.meta.error_code = status
                  /\ ex.result.text.body =
                        Msg("HTTP error: {} - {}",
                            <<IntToText(status), rq.result.response.text>>, <<>>)
                  /\ rq.outcomes[Len(rq.outcomes)] = rq.result.response
                  /\ status >= 500 => Len(rq.outcomes) = Retries + 1
        /\ (ex.step = "dispatch" /\ rq.pc = "raised" /\ rq.result.kind = "RequestError") =>
              /\ ex.result.isError
              /\ ex.result.meta.error_code = 503
              /\ Len(rq.outcomes) = Retries + 1
        /\ (ex.tool_name = ListName \/ ex.step = "translate") =>
              /\ ex.result.isError
              /\ ex.result.meta.error_code = 500

\* a transport failure and then two answers 500 with a retry budget of 2: code 500
C18_Witness ==
    /\ ex.pc = "done"
    /\ ex.step = "dispatch"
    /\ rq.pc = "raised"
    /\ rq.result.kind = "HTTPStatusError"
    /\ rq.outcomes = <<TransportFailure, Response(500, FALSE), Response(500, FALSE)>>
    /\ ex.result.meta.error_code = 500

(***************************************************************************)
(* Properties of BackendHTTPClient.health_check.                           *)
(***************************************************************************)
\* C19: health_check never raises: it ends with a boolean, and with False when the
\* service has no client, when _request ended with a transport failure or an
\* upstream status error, and when the answer was not a 2xx.
C19_HealthCheckNeverRaises ==
    rq.caller = "health" =>
        /\ rq.pc # "failed"
        /\ rq.pc = "answered" =>
              /\ rq.result.kind \in {"True", "False"}
              /\ rq.result.kind = "True" =>
                    /\ rq.service \in clients
                    /\ rq.outcomes # <<>>
                    /\ rq.outcomes[Len(rq.outcomes)].kind = "response"
                    /\ rq.outcomes[Len(rq.outcomes)].status \in 200..299

\* health_check answered False after a 500 and then a transport failure, with a
\* retry budget of 1
C19_Witness ==
    /\ rq.caller = "health"
    /\ rq.pc = "answered"
    /\ rq.result.kind = "False"
    /\ rq.outcomes = <<Response(500, FALSE), TransportFailure>>

(***************************************************************************)
(* Properties of RequestTranslator.translate_mcp_to_http.                  *)
(***************************************************************************)
\* C20: for a tool that declares a request body, called without a "body" argument,
\* the request options carry a body made of the argument entries that are neither
\* parameters of the path template nor declared query parameters, in argument
\* order, and they carry it also when it is the empty object.
C20_BodyFromRemainingArguments ==
    (/\ tr.pc = "done"
     /\ tr.result.ok
     /\ tr.tool.request_body.present
     /\ BodyName \notin Keys(tr.arguments)) =>
        LET path_params  == Range(FindParams(tr.tool.endpoint_path))
            query_params == {p.name : p \in Range(ParamsIn(tr.tool.parameters, "query"))}
            rest == SelectSeq(tr.arguments,
                              LAMBDA a : a.key \notin path_params \cup query_params)
        IN  /\ tr.result.kwargs.has_json
            /\ tr.result.kwargs.json.kind = "dict"
            /\ tr.result.kwargs.json.value = rest

\* C21: for a tool that declares a request body, an argument "body" is the HTTP body
\* as it is, with no other argument entry in it; for a tool that declares no body the
\* request options carry none, whatever the arguments are.
C21_ExplicitBodyUnchanged ==
    (tr.pc = "done" /\ tr.result.ok) =>
        /\ (tr.tool.request_body.present /\ BodyName \in Keys(tr.arguments)) =>
              /\ tr.result.kwargs.has_json
              /\ tr.result.kwargs.json.kind = "value"
              /\ tr.result.kwargs.json.value =
                    <<[key |-> BodyName, value |-> Get(tr.arguments, BodyName)]>>
        /\ ~tr.tool.request_body.present => ~tr.result.kwargs.has_json

\* the tool of PUT /i/{x} called with n and with a dict as "body": the dict is the body
C21_Witness ==
    /\ tr.pc = "done"
    /\ tr.result.ok
    /\ tr.tool.request_body.present
    /\ tr.arguments = <<[key |-> ArgN, value |-> VStr], [key |-> BodyName, value |-> VDict]>>
    /\ tr.result.kwargs.json.value = <<[key |-> BodyName, value |-> VDict]>>

\* the template with each {name} replaced by the text of the argument of that name,
\* from position i on
RECURSIVE Substituted(_, _, _)
Substituted(template, arguments, i) ==
    IF i > Len(template) THEN <<>>
    ELSE LET j == IF template[i] = "{" THEN IndexFrom(template, "}", i + 1) ELSE 0
         IN  IF j > i + 1
             THEN Get(arguments, SubSeq(template, i + 1, j - 1)).v
                  \o Substituted(template, arguments, j + 1)
             ELSE <<template[i]>> \o Substituted(template, arguments, i + 1)

\* C22: the path of the request is the template with every {name} replaced by the text
\* of the argument of that name; when a placeholder's name is not among the arguments
\* the call fails naming the first such placeholder in template order.  The outcome is
\* a function of the template and the arguments.
C22_PathSubstitution ==
    tr.pc = "done" =>
        LET params == FindParams(tr.tool.endpoint_path)
            absent == {i \in DOMAIN params : params[i] \notin Keys(tr.arguments)}
        IN  IF absent = {}
            THEN /\ tr.result.ok
                 /\ tr.result.path = Substituted(tr.tool.endpoint_path, tr.arguments, 1)
            ELSE /\ ~tr.result.ok
                 /\ tr.result.missing = params[CHOOSE i \in absent : \A j \in absent : i <= j]

C24_FallbackToolName ==
    \A n \in DOMAIN tools :
        \A d \in BackendDocs(tools[n].service_name) : \A i \in DOMAIN d.ops :
            (/\ d.ops[i].path = tools[n].endpoint_path
             /\ Upper(d.ops[i].method) = tools[n].http_method
             /\ d.ops[i].operation.operationId = AbsentStr) =>
                LET parts == StaticParts(d.ops[i].path)
                    suffix == IF parts # <<>> THEN <<"_">> \o parts[Len(parts)]
                              ELSE RootSuffix
                IN  n = Sanitize(tools[n].service_name \o <<"_">>
                                 \o Lower(d.ops[i].method) \o suffix)

\* C25: a regeneration that reads the same healthy set and the same stored documents
\* as the one before it leaves the catalog as it was: the same names and, for each
\* name, the same tool, in whatever order the services are visited.
C25_RegenerationIdempotent ==
    [][(/\ gen.ran
        /\ gen'.ran
        /\ gen'.healthy = gen.healthy
        /\ gen'.specs = gen.specs) => tools' = tools]_vars

(***************************************************************************)
(* Properties of BackendHTTPClient._request for an unknown service.        *)
(***************************************************************************)
\* C26: a call for a service that has no client ends at once with the ValueError
\* "Service not configured", whatever the method: no attempt is made, none is
\* retried and there is no backoff sleep.
C26_UnknownServiceFailsAtOnce ==
    (rq.pc # "idle" /\ rq.service \notin clients) =>
        /\ rq.pc = "raised"
        /\ rq.result.kind = "ValueError"
        /\ rq.calls = 0
        /\ rq.attempt = 0
        /\ rq.outcomes = <<>>
        /\ rq.sleeps = <<>>

\* a PATCH for the unconfigured service has raised
C26_Witness ==
    /\ rq.pc = "raised"
    /\ rq.service = SvcUnknown
    /\ rq.method = PATCH
    /\ rq.result.kind = "ValueError"

(***************************************************************************)
(* Properties of the health records under concurrent probes.               *)
(***************************************************************************)
\* the probe h[i] of a backend changed its record or made it: it did not raise, or
\* the backend had a record by then
Updated(h, i) == h[i] # "raise" \/ \E j \in 1..(i - 1) : h[j] # "raise"

\* C27: in every state, with probes of one backend in flight at the same time, the
\* healthy set is the set of backends whose record has is_healthy true, and a backend
\* is in it exactly when the probe that last updated its record succeeded.
C27_HealthySetMatchesRecords ==
    /\ healthy_services =
          {s \in DOMAIN service_statuses : service_statuses[s].is_healthy}
    /\ \A s \in Services :
          s \in healthy_services <=>
             \E i \in DOMAIN probes[s] :
                /\ Updated(probes[s], i)
                /\ \A k \in DOMAIN probes[s] : k > i => ~Updated(probes[s], k)
                /\ probes[s][i] = "true"

\* two probes of backend a_b are in flight at once, after two probes of backend a
\* that were in flight at once ended, the first with true and the second raising
C27_Witness ==
    /\ \A c \in Callers : pc[c] = "probing" /\ pend[c] = {SvcB}
    /\ probes[SvcA] = <<"true", "raise">>
    /\ probes[SvcB] = <<>>
    /\ healthy_services = {}

\* C28: after any sequence of probes, the last_error of a backend's record is the
\* exception's text if its most recent probe raised, and the empty string if that
\* probe succeeded or returned false: a false after an exception clears the text.
C28_LastErrorFollowsLastProbe ==
    \A s \in Services :
        (probes[s] # <<>> /\ s \in DOMAIN service_statuses) =>
            service_statuses[s].last_error =
                IF probes[s][Len(probes[s])] = "raise" THEN ExceptionText ELSE ""

(***************************************************************************)
(* Properties of the bring-up.                                             *)
(***************************************************************************)
\* C29: the bring-up is ordered.  start_monitoring begins a probe of every configured
\* backend and returns only when all of them have ended; start_loading begins a load
\* for every service healthy at that time and returns only when all of them have
\* ended; the monitor task and the refresh task are created only at the end of their
\* eager pass; the first generation of the catalog runs after both, with a client for
\* every configured backend.
C29_BringUpOrdered ==
    [][\A h \in Handlers :
          /\ (pc[h] # "probing" /\ pc'[h] = "probing") =>
                pend'[h] = DOMAIN service_configs
          /\ (pc[h] = "probing" /\ pc'[h] # "probing") => pend[h] = {}
          /\ (pc[h] # "loading" /\ pc'[h] = "loading") =>
                pc[h] = "probing" /\ pend'[h] = healthy_services
          /\ (pc[h] = "loading" /\ pc'[h] # "loading") => pend[h] = {}
          /\ (pc[MonitorOf(h)] = "none" /\ pc'[MonitorOf(h)] # "none") =>
                pc[h] = "probing" /\ pend[h] = {}
          /\ (pc[RefreshOf(h)] = "none" /\ pc'[RefreshOf(h)] # "none") =>
                /\ pc[h] \in {"probing", "loading"}
                /\ pend[h] = {}
                /\ pc'[MonitorOf(h)] # "none"
                /\ pc[h] = "probing" => healthy_services = {}
          /\ (~gen.ran /\ gen'.ran /\ pc'[h] # pc[h]) =>
                /\ pc[h] = "sleeping"
                /\ pc[MonitorOf(h)] # "none"
                /\ pc[RefreshOf(h)] # "none"
                /\ clients = DOMAIN service_configs]_vars

\* the bring-up is over: both backends were probed, both were healthy and had their
\* documents loaded before the catalog was generated, and both tasks exist
C29_Witness ==
    /\ pc["startup"] = "done"
    /\ gen.ran
    /\ gen.healthy = Services
    /\ DOMAIN gen.specs = Services
    /\ pc[MonitorOf("startup")] # "none"
    /\ pc[RefreshOf("startup")] # "none"

(***************************************************************************)
(* Properties of the background loops.                                     *)
(***************************************************************************)
\* C30: an exception raised in an iteration of the monitor loop or of the refresh
\* loop does not end the loop, and, no stop being requested, a later cycle of that
\* loop is eventually run.
C30_LoopsSurviveExceptions ==
    /\ [](\A t \in {MonitorOf("startup"), RefreshOf("startup")} :
             pc[t] \in {"waiting", "probing", "sleeping", "loading"})
    /\ \A n \in 1..MaxErrors :
          /\ (errs[MonitorOf("startup")] = n /\ pc[MonitorOf("startup")] = "waiting")
                ~> (pc[MonitorOf("startup")] = "probing")
          /\ (errs[RefreshOf("startup")] = n /\ pc[RefreshOf("startup")] = "sleeping")
                ~> (pc[RefreshOf("startup")] = "loading")

\* both loops are in a cycle again after iterations of each of them raised
C30_Witness ==
    /\ errs[MonitorOf("startup")] = MaxErrors
    /\ errs[RefreshOf("startup")] = MaxErrors
    /\ pc[MonitorOf("startup")] = "probing"
    /\ pc[RefreshOf("startup")] = "loading"
    /\ pend[RefreshOf("startup")] # {}


\* C31: once MCPServer.shutdown has returned, every background task that was ever
\* created is finished, so none of them is waiting for its next cycle or has a probe
\* or a load in progress, whatever requests were handled before the shutdown.
C31_ShutdownStopsEveryTask ==
    shutdown = "returned" =>
        \A t \in MonitorTasks \cup RefreshTasks : pc[t] \in {"none", "stopped"}


\* C32: health_check answers True for every 2xx status of GET /health (200, 201,
\* 204, ...) and False for every other outcome.
C32_HealthyOnAny2xx ==
    (rq.caller = "health" /\ rq.pc = "answered") =>
        (rq.result.kind = "True" <=>
            /\ rq.outcomes # <<>>
            /\ rq.outcomes[Len(rq.outcomes)].kind = "response"
            /\ rq.outcomes[Len(rq.outcomes)].status \in 200..299)


\* C33: the request options of translate_mcp_to_http carry a query-parameter mapping
\* holding exactly the declared query parameters whose names are among the arguments,
\* and they carry it also when it is empty (a GET tool called with only its path
\* parameter gives {params: {}}).
C33_ParamsAlwaysPresent ==
    (tr.pc = "done" /\ tr.result.ok) =>
        /\ tr.result.kwargs.has_params
        /\ {e.key : e \in Range(tr.result.kwargs.params)} =
              {p.name : p \in Range(ParamsIn(tr.tool.parameters, "query"))}
                  \cap Keys(tr.arguments)
        /\ \A e \in Range(tr.result.kwargs.params) : e.value = Get(tr.arguments, e.key)


\* C34: an endpoint parsed from an operation without operationId has the operation id
\* <lower-cased method>_<path with its slashes replaced>, the method joined to the
\* path's segments by a single underscore (POST /test gives post_test); its summary
\* and description are the empty string.
C34_DefaultOperationId ==
    \A s \in DOMAIN specs : \A k \in DOMAIN specs[s].endpoints :
        \A d \in BackendDocs(s) : \A i \in DOMAIN d.ops :
            LET e == specs[s].endpoints[k]
                segments == SelectSeq(Split(d.ops[i].path, "/"), LAMBDA p : p # <<>>)
            IN  (/\ d.ops[i].path = e.path
                 /\ Upper(d.ops[i].method) = e.method
                 /\ d.ops[i].operation.operationId = AbsentStr) =>
                    /\ e.operation_id = Lower(e.method) \o <<"_">> \o Join(segments, <<"_">>)
                    /\ e.summary = <<>>
                    /\ e.description = <<>>


\* C35: the input schema of a tool merges the three parameter sources: every path and
\* query parameter is a property, in the required list when its source marks it
\* required, and no name is in the list that no source requires; the properties of an
\* object body are spliced in and its required names are in the list; any other body
\* is the one property "body" with the body's declared type, marked required; and the
\* required list never contains a name twice.
C35_SchemaMergesSources ==
    \A n \in DOMAIN tools :
        LET t == tools[n]
            schema == t.input_schema
            rb == t.request_body
            params == SelectSeq(t.parameters, LAMBDA p : p.in \in {"path", "query"})
            is_object == rb.present /\ rb.schema.type = "object"
            is_value == rb.present /\ rb.schema.type # "object"
        IN  /\ \A p \in Range(params) :
                  /\ p.name \in DOMAIN schema.properties
                  /\ p.required => p.name \in Range(schema.required)
            /\ \A r \in Range(schema.required) :
                  \/ \E p \in Range(params) : p.name = r /\ p.required
                  \/ is_object /\ r \in Range(rb.schema.required)
                  \/ is_value /\ r = BodyName
            /\ is_object =>
                  /\ \A q \in Range(rb.schema.properties) :
                        /\ q.name \in DOMAIN schema.properties
                        /\ schema.properties[q.name].type = q.type
                  /\ Range(rb.schema.required) \subseteq Range(schema.required)
            /\ is_value =>
                  /\ BodyName \in DOMAIN schema.properties
                  /\ schema.properties[BodyName].type = rb.schema.type
                  /\ BodyName \in Range(schema.required)
            /\ \A i, j \in DOMAIN schema.required :
                  i # j => schema.required[i] # schema.required[j]


\* C36: a stored document has endpoints only for the method keys GET, POST, PUT,
\* DELETE and PATCH of the raw document, one for each of them and none for any other
\* key; a raw document without a "paths" object is stored for its service with zero
\* endpoints, it is not a failed load.
C36_OnlySupportedMethods ==
    \A s \in Services :
        LET last == LastLoaded(loads[s], Len(loads[s]))
            supported == {i \in DOMAIN last.ops : Upper(last.ops[i].method) \in SupportedMethods}
        IN  last # LoadFailure =>
               /\ s \in DOMAIN specs
               /\ \A e \in Range(specs[s].endpoints) : e.method \in SupportedMethods
               /\ IF last.has_paths
                  THEN Len(specs[s].endpoints) = Cardinality(supported)
                  ELSE specs[s].endpoints = <<>>

\* service a_b served a document with a HEAD operation and then one without "paths":
\* the stored document has no endpoints, where it had the one of GET /c before
C36_Witness ==
    /\ loads[SvcB] = <<RawDoc(<<OpGetC, OpHeadC>>), NoPathsDoc>>
    /\ SvcB \in DOMAIN specs
    /\ specs[SvcB].endpoints = <<>>


\* C37: a call that passes the validation and has no argument for a placeholder of
\* the tool's path template ends at the translation with isError = true, code 500
\* and a text naming the first such placeholder; no request is made to a backend.
C37_MissingPathParameterIs500 ==
    (ex.pc = "done" /\ ex.tool_name \in DOMAIN tools) =>
        LET tool == tools[ex.tool_name]
            missing == SelectSeq(FindParams(tool.endpoint_path),
                                 LAMBDA p : p \notin Keys(ex.arguments))
        IN  (ValidateArguments(tool, ex.arguments) = NoMsg /\ missing # <<>>) =>
               /\ ex.step = "translate"
               /\ ~ex.raised
               /\ ex.result.isError
               /\ ex.result.meta.error_code = 500
               /\ ex.result.text.body =
                     Msg("Internal error: Request translation failed: Missing required path parameter: {}",
                         <<missing[1]>>, <<>>)
               /\ rq = RqIdle

\* the tool of GET /i/{x}, whose schema does not require x, called with q alone
C37_Witness ==
    /\ ex.pc = "done"
    /\ ex.tool_name \in DOMAIN tools
    /\ tools[ex.tool_name].endpoint_path = <<"/","i","/","{","x","}">>
    /\ tools[ex.tool_name].input_schema.required = <<>>
    /\ Keys(ex.arguments) = {ArgQ}
    /\ ex.step = "translate"
    /\ ex.result.meta.error_code = 500


\* C38: a health probe goes through the retrying request path: when every attempt
\* of GET /health ends with a 5xx answer or a transport failure, the probe answers
\* False after retries + 1 requests separated by the delays 1, 2, 4, ... seconds; when
\* the first answer is a 4xx it answers False after that one request.
C38_ProbeRetries ==
    (rq.caller = "health" /\ rq.pc = "answered" /\ rq.outcomes # <<>>) =>
        /\ rq.method = GET
        /\ rq.path = HealthPath
        /\ (\A i \in DOMAIN rq.outcomes : Is5xx(rq.outcomes[i]) \/ IsTransport(rq.outcomes[i])) =>
              /\ Len(rq.outcomes) = Retries + 1
              /\ rq.sleeps = SubSeq(ExpectedDelays, 1, Retries)
              /\ rq.result.kind = "False"
        /\ Is4xx(rq.outcomes[1]) =>
              /\ Len(rq.outcomes) = 1
              /\ rq.sleeps = <<>>
              /\ rq.result.kind = "False"

\* a probe with a retry budget of 3 answered False after four failed attempts, the
\* second a transport failure and the last a 500, having slept 1, 2 and 4 seconds
C38_Witness ==
    /\ rq.caller = "health"
    /\ rq.pc = "answered"
    /\ rq.result.kind = "False"
    /\ Len(rq.outcomes) = 4
    /\ Retries = 3
    /\ IsTransport(rq.outcomes[2])
    /\ Is5xx(rq.outcomes[4])
    /\ rq.sleeps = <<1, 2, 4>>


\* C39: execute_tool decides from the catalog alone: a tool that is in the catalog is
\* never answered at the lookup, and when its arguments pass the validation and the
\* translation the request is sent to the tool's backend, whether or not the tool's
\* service is in the healthy set at the time of the call.
C39_DispatchIgnoresHealth ==
    (ex.pc \in {"dispatching", "done"} /\ ex.tool_name \in DOMAIN tools) =>
        LET tool == tools[ex.tool_name]
        IN  /\ ex.step # "lookup"
            /\ (/\ ValidateArguments(tool, ex.arguments) = NoMsg
                /\ TranslateMcpToHttp(tool, ex.arguments).ok
                /\ Upper(tool.http_method) \in SupportedMethods) =>
                   /\ ex.step \in {"dispatch", "ok"}
                   /\ rq.caller = "execute"
                   /\ rq.service = tool.service_name
                   /\ rq.path = TranslateMcpToHttp(tool, ex.arguments).path
                   /\ rq.pc \in {"returned", "raised"} => rq.outcomes # <<>>

\* a call of a tool of service a ended with the backend's answer while only the other
\* service was in the healthy set
C39_Witness ==
    /\ ex.pc = "done"
    /\ ex.step = "ok"
    /\ ex.tool_name \in DOMAIN tools
    /\ tools[ex.tool_name].service_name = SvcA
    /\ healthy_services = {SvcB}
    /\ ~ex.result.isError
    /\ rq.outcomes # <<>>


====
